---------------------------- MODULE Spec2Model ----------------------------
(***************************************************************************)
(* LingoBinder: chapter segmentation (services/epubParser.ts), the         *)
(* persistent store (services/db.ts), the provider call with retry         *)
(* (services/geminiService.ts) and the reader's translation run            *)
(* (components/ReaderView.tsx).                                            *)
(*                                                                         *)
(* Strings of the program are sequences of one-character strings, so that  *)
(* trimming, splitting and joining are computed and not assumed.           *)
(***************************************************************************)
EXTENDS Integers, Sequences, FiniteSets, TLC

VARIABLES
    \* ---- segmentation (epubParser.ts) ----
    doc,            \* childNodes of the chapter body handed to parseChapterContent
    parses,         \* the segmentation calls made on doc, in call order
    pathBase,       \* resolvePath: the baseFile argument
    pathRef,        \* resolvePath: the relativePath argument
    resolved,       \* resolvePath: how the call ended
    epub,           \* parseEpub: the archive it is given
    parsed,         \* parseEpub: how the call ended
    ncx,            \* parseNcx: the children of the NCX document's navMap
    tocPath,        \* parseNcx: the tocPath argument
    toc,            \* parseNcx: what the call returned
    \* ---- navigation (ReaderView.tsx 95-111, 396-400, 436-474) ----
    chapterHrefs,   \* the hrefs of book.chapters
    renderedIndex,  \* the currentChapterIndex the callbacks of the last render hold
    sinceRender,    \* the navigation requests handled since the last render
    restorePending, \* init() is waiting for db.getProgress
    \* ---- reading position (ReaderView.tsx 402-433) ----
    timers,         \* the setTimeout timers of handleScroll not yet run or cleared
    saveTimeoutRef, \* saveTimeoutRef.current: the id of the last timer set, 0 for null
    timersSet,      \* the number of timers handleScroll has set
    sinceScroll,    \* milliseconds since the last scroll event, up to SaveDelay
    located,        \* history: for each saveProgress call of a timer, the chapter
                    \* whose rows were displayed when the timer found its segment
    \* ---- persistent store (db.ts) ----
    books,          \* object store "books": set of book ids
    files,          \* object store "files": set of book ids having a blob
    progress,       \* object store "progress": bookId -> record
    translations,   \* object store "translations": key -> (segment id -> text)
    dbCalls,        \* db.* calls in flight, each with the step it is at
    usedBookIds,    \* the ids crypto.randomUUID() has handed out so far
    lastWrite,      \* history: per key and segment id, the text of the most
                    \* recent committed saveTranslations write naming that id
    dbIssued,       \* the number of db.* calls made so far
    \* ---- reader (ReaderView.tsx) ----
    currentChapterIndex,
    currentChapterRef,
    segments,
    isLoadingChapter,
    isTranslating,
    isStopping,
    abortControllerRef,
    loads,          \* loadChapter invocations
    runs,           \* handleTranslate invocations
    aiProvider,     \* aiSettings.provider
    requests,       \* the provider requests answered to runs not yet cancelled
    mounted,        \* the ReaderView is mounted
    objectURLs      \* the object URLs created for images and not revoked

pathVars   == <<pathBase, pathRef, resolved>>
tocVars    == <<ncx, tocPath, toc>>
navVars    == <<chapterHrefs, renderedIndex, sinceRender, restorePending>>
scrollVars == <<timers, saveTimeoutRef, timersSet, sinceScroll, located>>
epubVars   == <<epub, parsed, tocVars, navVars, scrollVars>>
imageVars  == <<mounted, objectURLs>>
segVars    == <<doc, parses, pathVars, epubVars>>
dbVars     == <<books, files, progress, translations, dbCalls, usedBookIds, lastWrite,
               dbIssued>>
readerVars == <<currentChapterIndex, currentChapterRef, segments,
                isLoadingChapter, isTranslating, isStopping,
                abortControllerRef, loads, runs, aiProvider, requests, imageVars>>
vars       == <<segVars, dbVars, readerVars>>

-----------------------------------------------------------------------------
(* Strings                                                                 *)

\* JavaScript's white space as far as the model's alphabet goes.
IsWhitespace(c) == c \in {" ", "\n", "\t"}

SetMin(S) == CHOOSE x \in S : \A y \in S : x <= y
SetMax(S) == CHOOSE x \in S : \A y \in S : x >= y

\* String.prototype.trim
Trim(s) ==
    LET keep == {i \in 1..Len(s) : ~IsWhitespace(s[i])}
    IN  IF keep = {} THEN <<>> ELSE SubSeq(s, SetMin(keep), SetMax(keep))

\* String.prototype.split('/') : the pieces between separators, empty ones kept.
RECURSIVE SplitAt(_, _, _)
SplitAt(s, sep, acc) ==
    IF s = <<>> THEN <<acc>>
    ELSE IF Head(s) = sep THEN <<acc>> \o SplitAt(Tail(s), sep, <<>>)
    ELSE SplitAt(Tail(s), sep, Append(acc, Head(s)))

Split(s, sep) == SplitAt(s, sep, <<>>)

\* Array.prototype.join('/')
RECURSIVE Join(_, _)
Join(parts, sep) ==
    IF parts = <<>> THEN <<>>
    ELSE IF Len(parts) = 1 THEN parts[1]
    ELSE parts[1] \o <<sep>> \o Join(Tail(parts), sep)

\* Array.prototype.pop on a stack kept as a sequence (no-op on the empty one).
Pop(stack) == IF stack = <<>> THEN <<>> ELSE SubSeq(stack, 1, Len(stack) - 1)

\* decodeURIComponent, for the escapes of the model's alphabet.
RECURSIVE decodeURIComponent(_)
decodeURIComponent(s) ==
    IF Len(s) >= 3 /\ s[1] = "%" /\ s[2] = "2" /\ s[3] = "0"
        THEN <<" ">> \o decodeURIComponent(SubSeq(s, 4, Len(s)))
    ELSE IF Len(s) >= 3 /\ s[1] = "%" /\ s[2] = "2" /\ s[3] = "F"
        THEN <<"/">> \o decodeURIComponent(SubSeq(s, 4, Len(s)))
    ELSE IF s = <<>> THEN <<>>
    ELSE <<Head(s)>> \o decodeURIComponent(Tail(s))

\* A variant of ApplyParts that pushes the empty parts too.
RECURSIVE ApplyPartsKeepEmpty(_, _)
ApplyPartsKeepEmpty(stack, parts) ==
    IF parts = <<>> THEN stack
    ELSE LET part == Head(parts) IN
         IF part = <<".">> THEN ApplyPartsKeepEmpty(stack, Tail(parts))
         ELSE IF part = <<".", ".">> THEN ApplyPartsKeepEmpty(Pop(stack), Tail(parts))
         ELSE ApplyPartsKeepEmpty(Append(stack, part), Tail(parts))

RECURSIVE ApplyParts(_, _)
ApplyParts(stack, parts) ==
    IF parts = <<>> THEN stack
    ELSE LET part == Head(parts) IN
         IF part = <<".">> \/ part = <<>> THEN ApplyParts(stack, Tail(parts))
         ELSE IF part = <<".", ".">> THEN ApplyParts(Pop(stack), Tail(parts))
         ELSE ApplyParts(Append(stack, part), Tail(parts))

resolvePath(baseFile, relativePath) ==
    IF relativePath = <<>> THEN <<>>
    ELSE Join(ApplyParts(Pop(Split(baseFile, "/")),
                         Split(decodeURIComponent(relativePath), "/")), "/")

\* decodeURIComponent throws a URIError on a "%" that two hexadecimal digits
\* do not follow.
HexDigits == {"0", "1", "2", "3", "4", "5", "6", "7", "8", "9",
              "A", "B", "C", "D", "E", "F", "a", "b", "c", "d", "e", "f"}

MalformedURI(s) ==
    \E i \in 1..Len(s) :
        /\ s[i] = "%"
        /\ ~(i + 2 <= Len(s) /\ s[i + 1] \in HexDigits /\ s[i + 2] \in HexDigits)

\* How a call of resolvePath ends: with a value, or with the URIError that
\* decodeURIComponent (line 114) throws.
NotResolved == [called |-> FALSE, thrown |-> "", value |-> <<>>]

resolvePathCall(base, ref) ==
    IF ref # <<>> /\ MalformedURI(ref)
        THEN [called |-> TRUE, thrown |-> "URIError", value |-> <<>>]
        ELSE [called |-> TRUE, thrown |-> "", value |-> resolvePath(base, ref)]

\* ---- calls of resolvePath ----

MaxBaseDirs == 2
MaxRefParts == 3

BaseParts == {<<>>, <<"a">>, <<"b">>}

RefParts == {<<>>, <<".">>, <<".", ".">>, <<"a">>,
             <<"a", "%", "2", "F", "b">>, <<"a", "%", "2", "0", "b">>, <<"%">>}

\* The paths of the two documented examples.
TextCh1    == <<"T", "e", "x", "t", "/", "c", "h", "1", ".", "x", "h", "t", "m", "l">>
CoverRef   == <<".", ".", "/", "I", "m", "a", "g", "e", "s", "/",
                "c", "o", "v", "e", "r", ".", "j", "p", "g">>
ContentOpf == <<"O", "E", "B", "P", "S", "/", "c", "o", "n", "t", "e", "n", "t",
                ".", "o", "p", "f">>

\* A file name below up to MaxBaseDirs directories.
BaseFiles ==
    {Join(dirs \o <<(<<"f">>)>>, "/") :
        dirs \in UNION {[1..n -> BaseParts] : n \in 0..MaxBaseDirs}}
    \cup {TextCh1, ContentOpf}

RelativePaths ==
    {Join(parts, "/") : parts \in UNION {[1..n -> RefParts] : n \in 0..MaxRefParts}}
    \cup {CoverRef, TextCh1}

ResolvePath ==
    /\ ~resolved.called
    /\ resolved' = resolvePathCall(pathBase, pathRef)
    /\ UNCHANGED <<doc, parses, pathBase, pathRef, epubVars, dbVars, readerVars>>

-----------------------------------------------------------------------------
(* Segments (types.ts) and the values a translatedText can hold            *)

\* translatedText is optional: NoText is the absent (undefined) value.
NoText == [kind |-> "undefined", src |-> <<>>, run |-> 0]

\* A string a provider returned for the text src in the provider call of
\* translation run r.
Translation(src, r) == [kind |-> "translation", src |-> src, run |-> r]

\* The fixed strings geminiService.ts puts in place of a translation.
TranslationFailed  == [kind |-> "[Translation Failed]", src |-> <<>>, run |-> 0]
RetryLimitExceeded == [kind |-> "[Error: Retry Limit Exceeded]", src |-> <<>>, run |-> 0]
TranslationError   == [kind |-> "Translation Error", src |-> <<>>, run |-> 0]

isTranslationError(text) ==
    text.kind \in {"[Translation Failed]", "[Error: Retry Limit Exceeded]"}

\* JavaScript truthiness of an optional string (every string of the model
\* that is present is non-empty).
Truthy(text) == text # NoText

Segment(id, type, tagName, originalText) ==
    [id |-> id, type |-> type, tagName |-> tagName, originalText |-> originalText,
     imageUrl |-> <<>>, translatedText |-> NoText, isLoading |-> FALSE]

-----------------------------------------------------------------------------
(* Chapter markup: the DOM the XHTML parser hands to the segmenter.  An    *)
(* absent attribute is the empty string (every use is through ||).         *)

TextNode(t) ==
    [nodeType |-> "TEXT_NODE", tagName |-> "", textContent |-> t,
     src |-> <<>>, href |-> <<>>, xlinkHref |-> <<>>, alt |-> <<>>, title |-> <<>>,
     childNodes |-> <<>>]

Element(tag, children) ==
    [nodeType |-> "ELEMENT_NODE", tagName |-> tag, textContent |-> <<>>,
     src |-> <<>>, href |-> <<>>, xlinkHref |-> <<>>, alt |-> <<>>, title |-> <<>>,
     childNodes |-> children]

NoElement == [Element("", <<>>) EXCEPT !.nodeType = "null"]

blockTags == {"p", "h1", "h2", "h3", "h4", "h5", "h6", "li", "blockquote", "div"}
imageTags == {"img", "image", "svg"}

\* Element.querySelector(tag): the first descendant in document order.
RECURSIVE querySelector(_, _)
querySelector(nodes, tag) ==
    IF nodes = <<>> THEN NoElement
    ELSE LET n == Head(nodes) IN
         IF n.nodeType = "ELEMENT_NODE" /\ n.tagName = tag THEN n
         ELSE LET inside == querySelector(n.childNodes, tag) IN
              IF inside # NoElement THEN inside
              ELSE querySelector(Tail(nodes), tag)

\* a || b on optional strings
OrElse(a, b) == IF a # <<>> THEN a ELSE b

getDeterministicId(segmentCounter) == "seg-" \o ToString(segmentCounter + 1)

\* The walk's mutable locals: segments, currentText, currentTag,
\* segmentCounter, pendingImages.
WalkStart ==
    [segments |-> <<>>, currentText |-> <<>>, currentTag |-> "p",
     segmentCounter |-> 0, pendingImages |-> <<>>]

\* The mutant of flushText: the emptiness test is made before trimming.
flushTextUntrimmedTest(st) ==
    [st EXCEPT
        !.segments = IF Len(st.currentText) > 0
                     THEN Append(@, Segment(getDeterministicId(st.segmentCounter),
                                            "text", st.currentTag, Trim(st.currentText)))
                     ELSE @,
        !.segmentCounter = IF Len(st.currentText) > 0 THEN @ + 1 ELSE @,
        !.currentText = <<>>,
        !.currentTag = "p"]

flushText(st) ==
    [st EXCEPT
        !.segments = IF Len(Trim(st.currentText)) > 0
                     THEN Append(@, Segment(getDeterministicId(st.segmentCounter),
                                            "text", st.currentTag, Trim(st.currentText)))
                     ELSE @,
        !.segmentCounter = IF Len(Trim(st.currentText)) > 0 THEN @ + 1 ELSE @,
        !.currentText = <<>>,
        !.currentTag = "p"]

\* The source attribute an image-bearing element resolves to.
imageSrc(el) ==
    LET direct == OrElse(el.src, el.href)
        innerImage == querySelector(el.childNodes, "image")
        viaSvg == IF el.tagName = "svg" /\ innerImage # NoElement
                  THEN OrElse(innerImage.href, innerImage.xlinkHref)
                  ELSE direct
    IN  OrElse(viaSvg, el.xlinkHref)

imageAlt(el) == OrElse(el.alt, OrElse(el.title, <<"I", "m", "a", "g", "e">>))

\* The image branch with the image's id drawn before the pending text is
\* flushed (not the code's order).
walkImageIdBeforeFlush(el, st, mode, chapterHref) ==
    LET flushed == flushText(st) IN
    IF mode = "text-only" THEN flushed
    ELSE IF imageSrc(el) # <<>>
         THEN [flushed EXCEPT
                 !.segments = Append(@, Segment(getDeterministicId(st.segmentCounter),
                                                "image", "img", imageAlt(el))),
                 !.segmentCounter = @ + 1,
                 !.pendingImages = Append(@, [index |-> Len(flushed.segments) + 1,
                                              path |-> resolvePath(chapterHref, imageSrc(el))])]
         ELSE flushed

walkImage(el, st, mode, chapterHref) ==
    LET flushed == flushText(st) IN
    IF mode = "text-only" THEN flushed
    ELSE IF imageSrc(el) # <<>>
         THEN [flushed EXCEPT
                 !.segments = Append(@, Segment(getDeterministicId(flushed.segmentCounter),
                                                "image", "img", imageAlt(el))),
                 !.segmentCounter = @ + 1,
                 !.pendingImages = Append(@, [index |-> Len(flushed.segments) + 1,
                                              path |-> resolvePath(chapterHref, imageSrc(el))])]
         ELSE flushed

RECURSIVE walk(_, _, _, _)
RECURSIVE walkChildren(_, _, _, _)
walk(node, st, mode, chapterHref) ==
    IF node.nodeType = "TEXT_NODE"
        THEN [st EXCEPT !.currentText = @ \o node.textContent]
    ELSE IF node.tagName \in imageTags
        THEN walkImage(node, st, mode, chapterHref)
    ELSE IF node.tagName \in blockTags
        THEN flushText(walkChildren(node.childNodes,
                                    [flushText(st) EXCEPT !.currentTag = node.tagName],
                                    mode, chapterHref))
    ELSE IF node.tagName = "br"
        THEN [st EXCEPT !.currentText = @ \o <<"\n">>]
    ELSE walkChildren(node.childNodes, st, mode, chapterHref)

walkChildren(nodes, st, mode, chapterHref) ==
    IF nodes = <<>> THEN st
    ELSE walkChildren(Tail(nodes), walk(Head(nodes), st, mode, chapterHref),
                      mode, chapterHref)

\* URL.createObjectURL of the blob stored at an archive path.
createObjectURL(path) == <<"blob:">> \o path

\* The image loads of full mode: each queued task sets the imageUrl of the
\* segment at its own index when the archive has the entry.
loadImages(segs, pendingImages, entries) ==
    [k \in 1..Len(segs) |->
        IF \E t \in 1..Len(pendingImages) :
              pendingImages[t].index = k /\ pendingImages[t].path \in entries
        THEN [segs[k] EXCEPT !.imageUrl =
                createObjectURL(pendingImages[CHOOSE t \in 1..Len(pendingImages) :
                                                 pendingImages[t].index = k].path)]
        ELSE segs[k]]

\* One queued image task settling: zip.file(task.path)?.async("blob") gave a
\* blob when the archive has the entry, and the segment at the task's index
\* then takes its object URL; a missing entry is logged only.  In arrival
\* order the URL would go to the first image segment still without one (not
\* the code's index).
settleImageInArrivalOrder(segs, task, entries) ==
    LET free == {k \in 1..Len(segs) : segs[k].type = "image" /\ segs[k].imageUrl = <<>>} IN
    IF task.path \in entries /\ free # {}
    THEN [segs EXCEPT ![CHOOSE k \in free : \A j \in free : k <= j].imageUrl =
                          createObjectURL(task.path)]
    ELSE segs

settleImage(segs, task, entries) ==
    IF task.path \in entries
    THEN [segs EXCEPT ![task.index].imageUrl = createObjectURL(task.path)]
    ELSE segs

\* The orders in which n tasks started by Promise.all may settle.
CompletionOrders(n) ==
    {order \in [1..n -> 1..n] : \A i, j \in 1..n : order[i] = order[j] => i = j}

\* The segments after the queued tasks settled in the given order.
RECURSIVE loadImagesIn(_, _, _, _)
loadImagesIn(order, segs, pendingImages, entries) ==
    IF order = <<>> THEN segs
    ELSE loadImagesIn(Tail(order), settleImage(segs, pendingImages[Head(order)], entries),
                      pendingImages, entries)

\* The tasks a full-mode call on body queues.
queuedImages(chapterHref, body) ==
    flushText(walkChildren(body, WalkStart, "full", chapterHref)).pendingImages

\* parseChapterContent(zip, chapter, 'full') with its image tasks settling
\* in the given order.
parseChapterContentIn(order, entries, chapterHref, body) ==
    IF chapterHref \notin entries THEN <<>>
    ELSE LET done == flushText(walkChildren(body, WalkStart, "full", chapterHref)) IN
         loadImagesIn(order, done.segments, done.pendingImages, entries)

\* parseChapterContent(zip, chapter, mode): body is the parsed document's
\* body.childNodes, entries the paths the archive holds.
parseChapterContent(entries, chapterHref, body, mode) ==
    IF chapterHref \notin entries THEN <<>>
    ELSE LET done == flushText(walkChildren(body, WalkStart, mode, chapterHref)) IN
         IF mode = "full"
         THEN loadImages(done.segments, done.pendingImages, entries)
         ELSE done.segments

-----------------------------------------------------------------------------
(* The second parseChapterContent of epubParser.ts (book.files variant):   *)
(* every segment id is Math.random().toString(36).substr(2, 9).            *)

\* The values Math.random() may give an id, within the model.
RandomIds == {"k3j9x2m1q", "z8w0p4r7t"}

\* rnd[k] is the k-th value Math.random() yields during one call.
flushTextLegacy(st, rnd) ==
    [st EXCEPT
        !.segments = IF Len(Trim(st.currentText)) > 0
                     THEN Append(@, Segment(rnd[st.segmentCounter + 1],
                                            "text", st.currentTag, Trim(st.currentText)))
                     ELSE @,
        !.segmentCounter = IF Len(Trim(st.currentText)) > 0 THEN @ + 1 ELSE @,
        !.currentText = <<>>,
        !.currentTag = "p"]

imageSrcLegacy(el) ==
    LET direct == OrElse(el.src, el.href)
        innerImage == querySelector(el.childNodes, "image")
        viaSvg == IF el.tagName = "svg" /\ innerImage # NoElement
                  THEN OrElse(innerImage.href, OrElse(innerImage.xlinkHref, innerImage.src))
                  ELSE direct
    IN  OrElse(viaSvg, el.xlinkHref)

walkImageLegacy(el, st, rnd, chapterHref, entries) ==
    LET flushed == flushTextLegacy(st, rnd)
        absolutePath == resolvePath(chapterHref, imageSrcLegacy(el))
    IN  IF imageSrcLegacy(el) # <<>> /\ absolutePath \in entries
        THEN [flushed EXCEPT
                !.segments = Append(@, [Segment(rnd[flushed.segmentCounter + 1],
                                                "image", "img", imageAlt(el))
                                        EXCEPT !.imageUrl = createObjectURL(absolutePath)]),
                !.segmentCounter = @ + 1]
        ELSE flushed

RECURSIVE walkLegacy(_, _, _, _, _)
RECURSIVE walkChildrenLegacy(_, _, _, _, _)
walkLegacy(node, st, rnd, chapterHref, entries) ==
    IF node.nodeType = "TEXT_NODE"
        THEN [st EXCEPT !.currentText = @ \o node.textContent]
    ELSE IF node.tagName \in imageTags
        THEN walkImageLegacy(node, st, rnd, chapterHref, entries)
    ELSE IF node.tagName \in blockTags
        THEN flushTextLegacy(
                walkChildrenLegacy(node.childNodes,
                                   [flushTextLegacy(st, rnd) EXCEPT !.currentTag = node.tagName],
                                   rnd, chapterHref, entries), rnd)
    ELSE IF node.tagName = "br"
        THEN [st EXCEPT !.currentText = @ \o <<"\n">>]
    ELSE walkChildrenLegacy(node.childNodes, st, rnd, chapterHref, entries)

walkChildrenLegacy(nodes, st, rnd, chapterHref, entries) ==
    IF nodes = <<>> THEN st
    ELSE walkChildrenLegacy(Tail(nodes),
                            walkLegacy(Head(nodes), st, rnd, chapterHref, entries),
                            rnd, chapterHref, entries)

parseChapterContentLegacy(entries, chapterHref, body, rnd) ==
    IF chapterHref \notin entries THEN <<>>
    ELSE flushTextLegacy(walkChildrenLegacy(body, WalkStart, rnd, chapterHref, entries),
                         rnd).segments

\* The number of nodes of a forest: no call draws more ids than that.
RECURSIVE NodeCount(_)
NodeCount(nodes) ==
    IF nodes = <<>> THEN 0
    ELSE 1 + NodeCount(Head(nodes).childNodes) + NodeCount(Tail(nodes))

\* How many ids one call on body draws.
LegacyDraws(entries, chapterHref, body) ==
    Len(parseChapterContentLegacy(entries, chapterHref, body,
                                  [k \in 1..NodeCount(body) |-> "x"]))

-----------------------------------------------------------------------------
(* Segmentation: the chapters the calls are made on                        *)

\* Longest body (top-level nodes) the segmentation specification draws.
MaxTop == 2

SegHref    == <<"T", "/", "c">>
ImagePath  == <<"I", "/", "i">>
SegEntries == {SegHref, ImagePath}

Img(src) == [Element("img", <<>>) EXCEPT !.src = src, !.alt = <<"c">>]

NodePool ==
    { TextNode(<<"a">>),
      TextNode(<<" ">>),
      Element("p", <<TextNode(<<" ", "a", "\n">>)>>),
      Element("p", <<TextNode(<<" ">>), Element("br", <<>>)>>),
      Img(<<".", ".", "/", "I", "/", "i">>),
      Img(<<>>),
      Img(<<"x">>),
      Element("div", <<TextNode(<<"b">>), Element("h1", <<TextNode(<<"a">>)>>)>>),
      Element("span", <<TextNode(<<"a">>), Element("br", <<>>), TextNode(<<"b">>)>>),
      Element("h1", <<TextNode(<<"a">>), Img(<<".", ".", "/", "I", "/", "i">>),
                      TextNode(<<"c">>)>>),
      Element("svg", <<[Element("image", <<>>) EXCEPT
                          !.xlinkHref = <<".", ".", "/", "I", "/", "i">>],
                       TextNode(<<"b">>)>>) }

Bodies == UNION {[1..n -> NodePool] : n \in 0..MaxTop}

\* The two most recent calls are kept.
Remember(call) ==
    IF Len(parses) < 2 THEN Append(parses, call) ELSE <<parses[2], call>>

SegmentFull ==
    /\ \E order \in CompletionOrders(Len(queuedImages(SegHref, doc))) :
          parses' = Remember([variant |-> "zip", mode |-> "full",
                              segments |-> parseChapterContentIn(order, SegEntries,
                                                                 SegHref, doc)])
    /\ UNCHANGED <<doc, pathVars, epubVars, dbVars, readerVars>>

SegmentTextOnly ==
    /\ parses' = Remember([variant |-> "zip", mode |-> "text-only",
                           segments |-> parseChapterContent(SegEntries, SegHref, doc, "text-only")])
    /\ UNCHANGED <<doc, pathVars, epubVars, dbVars, readerVars>>

SegmentLegacy ==
    /\ \E rnd \in [1..LegacyDraws(SegEntries, SegHref, doc) -> RandomIds] :
          parses' = Remember([variant |-> "files", mode |-> "full",
                              segments |-> parseChapterContentLegacy(SegEntries, SegHref, doc, rnd)])
    /\ UNCHANGED <<doc, pathVars, epubVars, dbVars, readerVars>>

-----------------------------------------------------------------------------
(* parseEpub (epubParser.ts, lines 8-109): the archive is opened, the      *)
(* container descriptor names the package document, and the package        *)
(* document gives the metadata, the manifest and the spine.  The table of  *)
(* contents and the cover (lines 66-106) read the archive with ?. and      *)
(* throw nothing; they are not part of the model.                          *)

\* An XML file of the archive: missing, empty or a text; a text is well
\* formed or not, and holds the elements named.
ContainerFile(file, wellFormed, rootfile) ==
    [file |-> file, wellFormed |-> wellFormed, rootfile |-> rootfile]

PackageFile(file, wellFormed, title, manifest, spine) ==
    [file |-> file, wellFormed |-> wellFormed, title |-> title,
     manifest |-> manifest, spine |-> spine]

\* How a call of parseEpub ends.
NotParsed == [state |-> "none", error |-> "", metadata |-> [title |-> ""],
              chapters |-> <<>>]

Thrown(message) == [NotParsed EXCEPT !.state = "thrown", !.error = message]

ParsedBook(metadata, chapters) ==
    [NotParsed EXCEPT !.state = "returned", !.metadata = metadata, !.chapters = chapters]

\* The path container.xml names, and its directory (line 48).
OpfPath == <<"O", "/", "c">>

lastIndexOf(s, c) == LET at == {i \in 1..Len(s) : s[i] = c} IN
                     IF at = {} THEN 0 ELSE SetMax(at)

opfDir(opfPath) == SubSeq(opfPath, 1, lastIndexOf(opfPath, "/"))

\* The href of the manifest item with the id given.
ManifestHref(id) == <<id>>

\* DOMParser.parseFromString throws nothing on a text that is not well
\* formed: the document it returns holds a parsererror element, and of the
\* text either nothing (the error document alone) or the elements read
\* before the error; recovered says which.
Readable(xml, recovered) == xml.wellFormed \/ recovered

\* Lines 50-64: spineItems.forEach((item, index) => ...), index from 0.
RECURSIVE spineLoop(_, _, _, _)
spineLoop(spineItems, index, manifest, chapters) ==
    IF index >= Len(spineItems) THEN chapters
    ELSE LET idRef == spineItems[index + 1] IN
         spineLoop(spineItems, index + 1, manifest,
             IF idRef # "" /\ idRef \in manifest
             THEN Append(chapters, [id |-> idRef,
                                    href |-> opfDir(OpfPath) \o ManifestHref(idRef),
                                    order |-> index])
             ELSE chapters)

parseEpub(zip, containerRecovered, opfRecovered) ==
    IF zip.container.file # "text"
        THEN Thrown("Invalid EPUB: Missing META-INF/container.xml")
    ELSE IF ~(/\ Readable(zip.container, containerRecovered)
              /\ zip.container.rootfile = "full-path")
        THEN Thrown("Invalid EPUB: Could not find OPF path")
    ELSE IF zip.opf.file # "text"
        THEN Thrown("Invalid EPUB: OPF file missing")
    ELSE LET seen == Readable(zip.opf, opfRecovered)
             manifest == IF seen THEN zip.opf.manifest ELSE {}
             spineItems == IF seen THEN zip.opf.spine ELSE <<>>
         IN  ParsedBook([title |-> IF seen /\ zip.opf.title THEN "t" ELSE "Unknown Title"],
                        spineLoop(spineItems, 0, manifest, <<>>))

\* ---- the archives handed to parseEpub ----

MaxSpine == 2

ManifestIds == {"x", "y"}

\* The idref of an itemref: none, one of the manifest ids, or another.
IdRefs == {"", "x", "y", "z"}

ContainerFiles ==
    {ContainerFile("missing", TRUE, "none"), ContainerFile("empty", TRUE, "none")}
    \cup {ContainerFile("text", wellFormed, rootfile) :
            wellFormed \in BOOLEAN, rootfile \in {"none", "no-full-path", "full-path"}}

PackageFiles ==
    {PackageFile("missing", TRUE, FALSE, {}, <<>>),
     PackageFile("empty", TRUE, FALSE, {}, <<>>)}
    \cup {PackageFile("text", wellFormed, title, manifest, spine) :
            wellFormed \in BOOLEAN, title \in BOOLEAN, manifest \in SUBSET ManifestIds,
            spine \in UNION {[1..n -> IdRefs] : n \in 0..MaxSpine}}

NoArchive == [container |-> ContainerFile("missing", TRUE, "none"),
              opf |-> PackageFile("missing", TRUE, FALSE, {}, <<>>)]

ParseEpub ==
    /\ parsed.state = "none"
    /\ \E containerRecovered \in BOOLEAN, opfRecovered \in BOOLEAN :
          parsed' = parseEpub(epub, containerRecovered, opfRecovered)
    /\ UNCHANGED <<doc, parses, pathVars, epub, tocVars, navVars, scrollVars, dbVars,
                   readerVars>>

-----------------------------------------------------------------------------
(* The table of contents: parseNcx (epubParser.ts 131-166)                 *)

\* Node.textContent of an element: the text of its descendants.
RECURSIVE textContentOf(_)
textContentOf(nodes) ==
    IF nodes = <<>> THEN <<>>
    ELSE (IF Head(nodes).nodeType = "TEXT_NODE" THEN Head(nodes).textContent
          ELSE textContentOf(Head(nodes).childNodes))
         \o textContentOf(Tail(nodes))

\* querySelector("navLabel > text") below an element whose children are
\* nodes: the first descendant named text, in document order, whose parent
\* is a navLabel.
RECURSIVE querySelectorLabelText(_, _)
querySelectorLabelText(nodes, parentTag) ==
    IF nodes = <<>> THEN NoElement
    ELSE LET n == Head(nodes) IN
         IF n.nodeType = "ELEMENT_NODE" /\ n.tagName = "text" /\ parentTag = "navLabel"
         THEN n
         ELSE LET inside == querySelectorLabelText(n.childNodes, n.tagName) IN
              IF inside # NoElement THEN inside
              ELSE querySelectorLabelText(Tail(nodes), parentTag)

Untitled == <<"U", "n", "t", "i", "t", "l", "e", "d">>

TocItem(label, href, subitems) ==
    [label |-> label, href |-> href, subitems |-> subitems, null |-> FALSE]

\* parseNavPoint returns null for a node it finds no src for.
NoItem == [label |-> <<>>, href |-> <<>>, subitems |-> <<>>, null |-> TRUE]

\* The content element parseNavPoint reads the src of (line 137).  Looking
\* among the node's own children only is not what the code does.
navPointContentOwn(node) ==
    LET own == SelectSeq(node.childNodes,
                         LAMBDA c : c.nodeType = "ELEMENT_NODE" /\ c.tagName = "content")
    IN  IF own = <<>> THEN NoElement ELSE own[1]

navPointContent(node) == querySelector(node.childNodes, "content")

RECURSIVE parseNavPoint(_, _)
RECURSIVE parseNavPoints(_, _)
parseNavPoint(node, path) ==
    LET labelText == querySelectorLabelText(node.childNodes, node.tagName)
        label == IF labelText = NoElement THEN Untitled
                 ELSE OrElse(textContentOf(labelText.childNodes), Untitled)
        content == navPointContent(node)
        src == IF content = NoElement THEN <<>> ELSE content.src
    IN  IF src = <<>> THEN NoItem
        ELSE TocItem(label, resolvePath(path, src), parseNavPoints(node.childNodes, path))

\* The forEach over children: every child named navpoint (compared in lower
\* case) that parses to an item, in order.
parseNavPoints(children, path) ==
    IF children = <<>> THEN <<>>
    ELSE LET child == Head(children)
             item == parseNavPoint(child, path)
         IN  (IF child.nodeType = "ELEMENT_NODE" /\ child.tagName = "navPoint"
                  /\ item # NoItem
              THEN <<item>> ELSE <<>>)
             \o parseNavPoints(Tail(children), path)

\* ncx is the navMap's children, or NoNavMap for a document without navMap.
NoNavMap == <<NoElement>>

parseNcx(navMap, path) ==
    IF navMap = NoNavMap THEN <<>> ELSE parseNavPoints(navMap, path)

NotCalled == [called |-> FALSE, items |-> <<>>]

\* ---- the NCX documents of the model ----

Content(src) == [Element("content", <<>>) EXCEPT !.src = src]
NavLabel(text) == Element("navLabel", <<Element("text", <<TextNode(text)>>)>>)
NavPoint(children) == Element("navPoint", children)

\* Longest navMap (top-level children) drawn.
MaxNavPoints == 2

NavPool ==
    { NavPoint(<<NavLabel(<<"A">>), Content(<<"c">>)>>),
      NavPoint(<<NavLabel(<<>>), Content(<<".", ".", "/", "d", "#", "f">>)>>),
      NavPoint(<<NavLabel(<<"B">>), Content(<<>>)>>),
      NavPoint(<<NavLabel(<<"B">>)>>),
      NavPoint(<<NavLabel(<<"P">>),
                 NavPoint(<<NavLabel(<<"A">>), Content(<<"c">>)>>)>>),
      NavPoint(<<NavLabel(<<"P">>), Content(<<"c">>),
                 NavPoint(<<NavLabel(<<"A">>), Content(<<"d", "#", "f">>)>>),
                 NavPoint(<<NavLabel(<<"B">>)>>)>>),
      NavPoint(<<NavLabel(<<"P">>), Content(<<"d">>),
                 NavPoint(<<Content(<<>>),
                            NavPoint(<<NavLabel(<<"A">>), Content(<<"c">>)>>)>>)>>),
      Element("navInfo", <<Content(<<"c">>)>>) }

NavMaps == {NoNavMap} \cup UNION {[1..n -> NavPool] : n \in 0..MaxNavPoints}

TocPaths == {<<"t">>, <<"O", "/", "t">>}

ParseNcx ==
    /\ ~toc.called
    /\ toc' = [called |-> TRUE, items |-> parseNcx(ncx, tocPath)]
    /\ UNCHANGED <<doc, parses, pathVars, epub, parsed, ncx, tocPath, navVars, scrollVars,
                   dbVars, readerVars>>

-----------------------------------------------------------------------------
(* The persistent store (db.ts)                                            *)

EmptyMap == [k \in {} |-> NoText]

\* The composite key `${bookId}_${chapterHref}`.
TranslationKey(bookId, chapterHref) == bookId \o <<"_">> \o chapterHref

\* Code-unit order of the characters keys are made of; "\\uffff" stands for
\* the character U+FFFF and is the greatest.
CharOrder == <<"/", "0", "1", "2", "I", "T", "_", "a", "b", "c", "h", "i", "x", "\\uffff">>
CharCode(c) == CHOOSE k \in 1..Len(CharOrder) : CharOrder[k] = c

\* a <= b in the order IndexedDB gives string keys.
RECURSIVE KeyLeq(_, _)
KeyLeq(a, b) ==
    IF a = <<>> THEN TRUE
    ELSE IF b = <<>> THEN FALSE
    ELSE IF Head(a) # Head(b) THEN CharCode(Head(a)) < CharCode(Head(b))
    ELSE KeyLeq(Tail(a), Tail(b))

\* A variant of InBookRange without the upper bound:
\* IDBKeyRange.lowerBound(id_) holds the key.
InLowerBoundedRange(key, id) == KeyLeq(id \o <<"_">>, key)

\* IDBKeyRange.bound(id_, id_U+FFFF) holds the key.
InBookRange(key, id) ==
    /\ KeyLeq(id \o <<"_">>, key)
    /\ KeyLeq(key, id \o <<"_", "\\uffff">>)

\* saveTranslations, lines 126-134: the map of the segments that have a
\* translatedText (a later segment of the same id overwrites an earlier one).
TranslatedMap(segs) ==
    [id \in {segs[k].id : k \in {j \in 1..Len(segs) : Truthy(segs[j].translatedText)}} |->
        segs[SetMax({j \in 1..Len(segs) :
                        segs[j].id = id /\ Truthy(segs[j].translatedText)})].translatedText]

\* The mutant of MergedSegments: the record is replaced, not merged.
ReplacedSegments(existing, translatedMap) == translatedMap

\* { ...(existing?.segments || {}), ...translatedMap }
MergedSegments(existing, translatedMap) ==
    [id \in DOMAIN existing \cup DOMAIN translatedMap |->
        IF id \in DOMAIN translatedMap THEN translatedMap[id] ELSE existing[id]]

getTranslations(store, bookId, chapterHref) ==
    IF TranslationKey(bookId, chapterHref) \in DOMAIN store
    THEN store[TranslationKey(bookId, chapterHref)]
    ELSE EmptyMap

\* The get + put of saveTranslations' transaction.
PutTranslations(store, bookId, chapterHref, translatedMap) ==
    LET id == TranslationKey(bookId, chapterHref) IN
    [k \in DOMAIN store \cup {id} |->
        IF k = id
        THEN MergedSegments(getTranslations(store, bookId, chapterHref), translatedMap)
        ELSE store[k]]

\* objectStore.delete(range)
DeleteBookRange(store, id) ==
    [k \in {key \in DOMAIN store : ~InBookRange(key, id)} |-> store[k]]

\* objectStore.delete(id) on a store keyed by book id
DeleteRecord(store, id) == [k \in DOMAIN store \ {id} |-> store[k]]

\* getProgress, lines 198-208: the record of the book, or undefined.
NoProgress == [bookId |-> <<>>, chapterIndex |-> -1, segmentId |-> ""]

getProgress(store, bookId) ==
    IF bookId \in DOMAIN store THEN store[bookId] ELSE NoProgress

\* The mutant of CleanupSettles: a failing cleanup fails deleteBook.
CleanupPropagates(outcome) == IF outcome = "complete" THEN "resolved" ELSE "rejected"

\* deleteBook, lines 105-121: whatever the cleanup transaction does
\* (completes, fires onerror, or db.transaction throws), the promise of
\* deleteBook resolves.
CleanupSettles(outcome) == "resolved"

\* ---- history kept for the claims: what the last write of each id was ----
NoteWrite(log, key, translatedMap) ==
    [k \in DOMAIN log \cup {key} |->
        [id \in (IF k \in DOMAIN log THEN DOMAIN log[k] ELSE {})
                 \cup (IF k = key THEN DOMAIN translatedMap ELSE {}) |->
            IF k = key /\ id \in DOMAIN translatedMap THEN translatedMap[id] ELSE log[k][id]]]

-----------------------------------------------------------------------------
(* Calls on the store.  Every db.* call first awaits openDB(); its         *)
(* transaction then commits, or fails, as one step.                        *)

\* Store calls that may be in flight together.
MaxInFlight == 2

\* Store calls made in one behaviour of the store specification.
MaxCalls == 5

DbBookIds == {<<"b", "1">>, <<"b", "2">>}
DbHrefs   == {<<"c", "1">>, <<"c", "2">>}

\* The segment lists handed to saveTranslations by the store specification.
DbSegmentLists ==
    {<<[Segment("seg-1", "text", "p", <<"a">>) EXCEPT !.translatedText = t[1]],
       [Segment("seg-2", "text", "p", <<"a">>) EXCEPT !.translatedText = t[2]]>> :
        t \in {<<NoText, NoText>>,
                <<Translation(<<"a">>, 1), NoText>>,
                <<Translation(<<"a">>, 2), Translation(<<"a">>, 2)>>}}

DbCall(op, pc, bookId) ==
    [op |-> op, pc |-> pc, bookId |-> bookId, chapterHref |-> <<>>,
     translatedMap |-> EmptyMap, chapterIndex |-> 0, segmentId |-> "",
     cleanup |-> ""]

Settle(c, pc) == (dbCalls \ {c}) \cup {[c EXCEPT !.pc = pc]}

CallAddBook(b) ==
    /\ Cardinality(dbCalls) < MaxInFlight
    /\ dbIssued < MaxCalls
    /\ dbIssued' = dbIssued + 1
    /\ b \notin usedBookIds
    /\ usedBookIds' = usedBookIds \cup {b}
    /\ dbCalls' = dbCalls \cup {DbCall("addBook", "tx", b)}
    /\ UNCHANGED <<books, files, progress, translations, lastWrite, segVars, readerVars>>

\* A variant of AddBookCommit whose catalog put is in without the blob.
AddBookCatalogOnly(c) ==
    /\ c.op = "addBook" /\ c.pc = "tx"
    /\ books' = books \cup {c.bookId}
    /\ dbCalls' = Settle(c, "resolved")
    /\ UNCHANGED <<files, progress, translations, usedBookIds, lastWrite, dbIssued, segVars, readerVars>>

\* tx.oncomplete: both puts of the one transaction are in.
AddBookCommit(c) ==
    /\ c.op = "addBook" /\ c.pc = "tx"
    /\ books' = books \cup {c.bookId}
    /\ files' = files \cup {c.bookId}
    /\ dbCalls' = Settle(c, "resolved")
    /\ UNCHANGED <<progress, translations, usedBookIds, lastWrite, dbIssued, segVars, readerVars>>

CallDeleteBook(b) ==
    /\ Cardinality(dbCalls) < MaxInFlight
    /\ dbIssued < MaxCalls
    /\ dbIssued' = dbIssued + 1
    /\ b \in books
    /\ dbCalls' = dbCalls \cup {DbCall("deleteBook", "tx", b)}
    /\ UNCHANGED <<books, files, progress, translations, usedBookIds, lastWrite, segVars, readerVars>>

\* deleteBook step 1, tx.oncomplete: the three deletes of the one
\* transaction are in.
DeleteBookCommit(c) ==
    /\ c.op = "deleteBook" /\ c.pc = "tx"
    /\ books' = books \ {c.bookId}
    /\ files' = files \ {c.bookId}
    /\ progress' = DeleteRecord(progress, c.bookId)
    /\ dbCalls' = Settle(c, "cleanup")
    /\ UNCHANGED <<translations, usedBookIds, lastWrite, dbIssued, segVars, readerVars>>

\* deleteBook step 2: the translation cleanup completes, fires onerror
\* (the transaction aborts, nothing is deleted) or cannot be started
\* (db.transaction throws, caught at line 118).
DeleteBookCleanup(c, outcome) ==
    /\ c.op = "deleteBook" /\ c.pc = "cleanup"
    /\ translations' = IF outcome = "complete"
                       THEN DeleteBookRange(translations, c.bookId)
                       ELSE translations
    /\ lastWrite' = IF outcome = "complete"
                    THEN DeleteBookRange(lastWrite, c.bookId)
                    ELSE lastWrite
    /\ dbCalls' = (dbCalls \ {c}) \cup
                     {[c EXCEPT !.pc = CleanupSettles(outcome), !.cleanup = outcome]}
    /\ UNCHANGED <<books, files, progress, usedBookIds, dbIssued, segVars, readerVars>>

\* saveTranslations: nothing is written when no segment has a translation.
CallSaveTranslations(b, h, segs) ==
    /\ Cardinality(dbCalls) < MaxInFlight
    /\ dbIssued < MaxCalls
    /\ dbIssued' = dbIssued + 1
    /\ dbCalls' = dbCalls \cup
          {IF DOMAIN TranslatedMap(segs) = {}
           THEN DbCall("saveTranslations", "resolved", b)
           ELSE [DbCall("saveTranslations", "tx", b) EXCEPT
                    !.chapterHref = h, !.translatedMap = TranslatedMap(segs)]}
    /\ UNCHANGED <<books, files, progress, translations, usedBookIds, lastWrite, segVars, readerVars>>

SaveTranslationsCommit(c) ==
    /\ c.op = "saveTranslations" /\ c.pc = "tx"
    /\ translations' = PutTranslations(translations, c.bookId, c.chapterHref, c.translatedMap)
    /\ lastWrite' = NoteWrite(lastWrite, TranslationKey(c.bookId, c.chapterHref),
                              c.translatedMap)
    /\ dbCalls' = Settle(c, "resolved")
    /\ UNCHANGED <<books, files, progress, usedBookIds, dbIssued, segVars, readerVars>>

CallSaveProgress(b, chapterIndex, segmentId) ==
    /\ Cardinality(dbCalls) < MaxInFlight
    /\ dbIssued < MaxCalls
    /\ dbIssued' = dbIssued + 1
    /\ dbCalls' = dbCalls \cup
          {[DbCall("saveProgress", "tx", b) EXCEPT
               !.chapterIndex = chapterIndex, !.segmentId = segmentId]}
    /\ UNCHANGED <<books, files, progress, translations, usedBookIds, lastWrite, segVars, readerVars>>

\* A variant of SaveProgressCommit that keeps a record already there.
SaveProgressKeepsFirst(c) ==
    /\ c.op = "saveProgress" /\ c.pc = "tx"
    /\ progress' = [b \in DOMAIN progress \cup {c.bookId} |->
                      IF b \in DOMAIN progress THEN progress[b]
                      ELSE [bookId |-> c.bookId, chapterIndex |-> c.chapterIndex,
                            segmentId |-> c.segmentId]]
    /\ dbCalls' = Settle(c, "resolved")
    /\ UNCHANGED <<books, files, translations, usedBookIds, lastWrite, dbIssued, segVars, readerVars>>

\* saveProgress, lines 189-195: the put completes.
SaveProgressCommit(c) ==
    /\ c.op = "saveProgress" /\ c.pc = "tx"
    /\ progress' = [b \in DOMAIN progress \cup {c.bookId} |->
                      IF b = c.bookId
                      THEN [bookId |-> c.bookId, chapterIndex |-> c.chapterIndex,
                            segmentId |-> c.segmentId]
                      ELSE progress[b]]
    /\ dbCalls' = Settle(c, "resolved")
    /\ UNCHANGED <<books, files, translations, usedBookIds, lastWrite, dbIssued, segVars, readerVars>>

\* tx.onerror: the transaction aborts, nothing of it is in, the promise of
\* the call rejects.
TransactionError(c) ==
    /\ c.pc = "tx"
    /\ dbCalls' = Settle(c, "rejected")
    /\ UNCHANGED <<books, files, progress, translations, usedBookIds, lastWrite, dbIssued, segVars, readerVars>>

\* The caller takes the settled promise.
Return(c) ==
    /\ c.pc \in {"resolved", "rejected"}
    /\ dbCalls' = dbCalls \ {c}
    /\ UNCHANGED <<books, files, progress, translations, usedBookIds, lastWrite, dbIssued, segVars, readerVars>>

-----------------------------------------------------------------------------
(* The open book of the reader (ReaderView.tsx props)                      *)

BATCH_SIZE == 30

\* Text segments of the first chapter beyond one full batch.
ExtraSegments == 1

ReaderBookId == <<"b", "1">>

ArchiveEntries == {<<"T", "/", "0">>, <<"T", "/", "1">>, ImagePath}

\* book.chapters
Chapters ==
    <<[id |-> "ch0", href |-> <<"T", "/", "0">>, title |-> "Chapter 1", order |-> 0],
      [id |-> "ch1", href |-> <<"T", "/", "1">>, title |-> "Chapter 2", order |-> 1]>>

\* What parseChapterContent(zipInstance, chapter, 'full') resolves to for
\* each chapter: the first chapter is an image and BATCH_SIZE + ExtraSegments
\* paragraphs, the second one paragraph and an image.
ChapterImage(segmentCounter) ==
    [Segment(getDeterministicId(segmentCounter), "image", "img",
             imageAlt(Img(<<".", ".", "/", "I", "/", "i">>)))
        EXCEPT !.imageUrl = createObjectURL(ImagePath)]

ExtractedSegments ==
    [index \in 0..(Len(Chapters) - 1) |->
        IF index = 0
        THEN <<ChapterImage(0)>> \o
             [k \in 1..(BATCH_SIZE + ExtraSegments) |->
                 Segment(getDeterministicId(k), "text", "p", <<"a">>)]
        ELSE <<Segment(getDeterministicId(0), "text", "p", <<"b">>), ChapterImage(1)>>]

-----------------------------------------------------------------------------
(* The provider call (geminiService.ts)                                    *)

maxRetries == 3

\* What one request to the provider may come back with: an array of the
\* right length, one string short, one string long, an empty body, a body
\* that is no JSON array, or an HTTP error.
ProviderOutcomes == {"ok", "short", "long", "empty", "nonarray", "429", "503", "500"}

\* The array of a well-formed body: the translation of each text, cut or
\* extended to the length the provider chose.
ResponseArray(texts, outcome, r) ==
    LET n == IF outcome = "short" THEN Len(texts) - 1
             ELSE IF outcome = "long" THEN Len(texts) + 1
             ELSE Len(texts)
    IN  [k \in 1..n |-> IF k <= Len(texts) THEN Translation(texts[k], r)
                        ELSE Translation(<<>>, r)]

\* translateWithGemini / translateWithOpenAI on one response: the value
\* returned, or what is thrown.
ProviderCall(provider, texts, outcome, r) ==
    IF outcome \in {"ok", "short", "long"}
        THEN [returns |-> TRUE, value |-> ResponseArray(texts, outcome, r), thrown |-> ""]
    ELSE IF outcome = "empty" /\ provider = "gemini"
        THEN [returns |-> TRUE, value |-> [k \in 1..Len(texts) |-> TranslationError],
              thrown |-> ""]
    ELSE [returns |-> FALSE, value |-> <<>>,
          thrown |-> IF outcome = "empty" THEN "No content in OpenAI response"
                     ELSE IF outcome = "nonarray" THEN "Invalid JSON"
                     ELSE outcome]

\* A variant of isRateLimit that takes no error for a rate limit.
isRateLimitNever(provider, thrown) == FALSE

\* translateSegmentsBatch, lines 170-178.  The Gemini SDK's error carries
\* the HTTP status; the error translateWithOpenAI throws carries the status
\* in its message only, which is searched for "429".
isRateLimit(provider, thrown) ==
    IF provider = "gemini" THEN thrown \in {"429", "503"} ELSE thrown = "429"

\* A variant of NextBackoff without the upper bound.
NextBackoffUncapped(backoff) == (backoff * 3) \div 2

\* Math.min(backoff * 1.5, 30000)
NextBackoff(backoff) ==
    IF (backoff * 3) \div 2 < 30000 THEN (backoff * 3) \div 2 ELSE 30000

-----------------------------------------------------------------------------
(* The reader: chapter loading and the translation run (ReaderView.tsx)    *)

\* handleTranslate calls made while the book is open.
MaxRuns == 2

\* Provider requests answered in one session of the reader.
MaxRequests == 3
\* loadChapter invocations (the first on mount, one per chapter change).
MaxLoads == 2

MinOf(a, b) == IF a < b THEN a ELSE b

\* The mutant of SegmentsToTranslate: every text segment is a candidate.
SegmentsToTranslateAll(segs, force) == SelectSeq(segs, LAMBDA s : s.type = "text")

\* A variant of SegmentsToTranslate that does not look at the type.
SegmentsToTranslateAnyType(segs, force) ==
    SelectSeq(segs, LAMBDA s :
        force \/ ~Truthy(s.translatedText) \/ isTranslationError(s.translatedText))

\* handleTranslate, lines 256-259
SegmentsToTranslate(segs, force) ==
    SelectSeq(segs, LAMBDA s :
        s.type = "text" /\ (force \/ ~Truthy(s.translatedText)
                                  \/ isTranslationError(s.translatedText)))

\* A variant of BatchAt whose slices take one candidate more.
BatchAtOverlapping(cands, i) == SubSeq(cands, i + 1, MinOf(i + BATCH_SIZE + 1, Len(cands)))

\* segmentsToTranslate.slice(i, i + BATCH_SIZE)
BatchAt(cands, i) == SubSeq(cands, i + 1, MinOf(i + BATCH_SIZE, Len(cands)))

\* Math.ceil(segmentsToTranslate.length / BATCH_SIZE), line 266
totalBatches(cands) == (Len(cands) + BATCH_SIZE - 1) \div BATCH_SIZE

\* A run keeps its candidates by id: of a candidate the run reads only the
\* id and the originalText, which no step changes.
Ids(segs) == [k \in 1..Len(segs) |-> segs[k].id]

BatchIds(batch) == {batch[k] : k \in 1..Len(batch)}

\* batch.map(s => s.originalText), line 281
BatchTexts(batch, segs) ==
    [k \in 1..Len(batch) |->
        segs[CHOOSE j \in 1..Len(segs) : segs[j].id = batch[k]].originalText]

\* line 279
MarkLoading(segs, ids) ==
    [k \in 1..Len(segs) |->
        IF segs[k].id \in ids THEN [segs[k] EXCEPT !.isLoading = TRUE] ELSE segs[k]]

\* line 331
ClearLoading(segs) ==
    [k \in 1..Len(segs) |->
        IF segs[k].isLoading THEN [segs[k] EXCEPT !.isLoading = FALSE] ELSE segs[k]]

\* translations[indexInBatch]: undefined beyond the end of the array
ElementAt(array, index) == IF index \in 1..Len(array) THEN array[index] ELSE NoText

\* The mutant of ApplyResults: the array is applied from its end.
ApplyResultsReversed(currentSegments, batch, array) ==
    [k \in 1..Len(currentSegments) |->
        IF currentSegments[k].id \in BatchIds(batch)
        THEN [currentSegments[k] EXCEPT
                !.translatedText =
                    ElementAt(array, Len(batch) + 1 -
                        SetMin({j \in 1..Len(batch) : batch[j] = currentSegments[k].id})),
                !.isLoading = FALSE]
        ELSE currentSegments[k]]

\* lines 287-297
ApplyResults(currentSegments, batch, array) ==
    [k \in 1..Len(currentSegments) |->
        IF currentSegments[k].id \in BatchIds(batch)
        THEN [currentSegments[k] EXCEPT
                !.translatedText =
                    ElementAt(array,
                        SetMin({j \in 1..Len(batch) : batch[j] = currentSegments[k].id})),
                !.isLoading = FALSE]
        ELSE currentSegments[k]]

\* loadChapter, lines 207-212
MergeSaved(extracted, saved) ==
    [k \in 1..Len(extracted) |->
        IF extracted[k].id \in DOMAIN saved /\ Truthy(saved[extracted[k].id])
        THEN [extracted[k] EXCEPT !.translatedText = saved[extracted[k].id]]
        ELSE extracted[k]]

NoRun ==
    [pc |-> "done", aborted |-> FALSE, force |-> FALSE, translationChapterId |-> "",
     chapterHref |-> <<>>, segmentsToTranslate |-> <<>>, i |-> 0,
     currentSegments |-> <<>>, retries |-> 0, backoff |-> 0, completedBatches |-> 0,
     translatedMap |-> EmptyMap]

\* The mutant of SignalAborted: abort() is never seen by the run.
SignalNeverAborted(r) == FALSE

\* A variant of SignalAborted in which only the request sees abort().
SignalAbortedAtRequest(r) == runs[r].aborted /\ runs[r].pc = "provider"

\* controller.signal.aborted of run r's own controller
SignalAborted(r) == runs[r].aborted

\* lines 273 and 285
OnRunChapter(r) == currentChapterRef = runs[r].translationChapterId

\* The mutant of SaveHref: the chapter is read when the write is made.
SaveHrefOfCurrentChapter(r) == Chapters[currentChapterIndex + 1].href

\* The chapterHref saveTranslations was called with: currentChapter.href of
\* the render handleTranslate was created in.
SaveHref(r) == runs[r].chapterHref

\* A variant of Abort that signals nothing.
AbortNothing(rs, r) == rs

\* abortControllerRef.current.abort(), on the runs as they are in rs
Abort(rs, r) == IF r = 0 THEN rs ELSE [rs EXCEPT ![r].aborted = TRUE]

\* A run that is over: of what it held only its signal can still be reached
\* (through abortControllerRef, when the run ended without clearing it).
Over(run) == [NoRun EXCEPT !.aborted = run.aborted]

\* A variant of Finally in which a cancelled run leaves an error marker on
\* the segments it had marked loading.
FinallyWithMarker(r, rs, segs) ==
    /\ runs' = [rs EXCEPT ![r] = Over(rs[r])]
    /\ IF abortControllerRef = r
       THEN /\ segments' =
                  IF SignalAborted(r)
                  THEN [k \in 1..Len(segs) |->
                          IF segs[k].isLoading
                          THEN [segs[k] EXCEPT !.isLoading = FALSE,
                                               !.translatedText = TranslationFailed]
                          ELSE segs[k]]
                  ELSE segs
            /\ isTranslating' = FALSE
            /\ isStopping' = FALSE
            /\ abortControllerRef' = 0
       ELSE /\ segments' = segs
            /\ UNCHANGED <<isTranslating, isStopping, abortControllerRef>>

\* The finally block, lines 326-337, reached with the run as rs[r] and the
\* displayed segments as segs.
Finally(r, rs, segs) ==
    /\ runs' = [rs EXCEPT ![r] = Over(rs[r])]
    /\ IF abortControllerRef = r
       THEN /\ segments' = IF SignalAborted(r) THEN ClearLoading(segs) ELSE segs
            /\ isTranslating' = FALSE
            /\ isStopping' = FALSE
            /\ abortControllerRef' = 0
       ELSE /\ segments' = segs
            /\ UNCHANGED <<isTranslating, isStopping, abortControllerRef>>

\* The head of the for loop at offset rs[r].i, lines 271-282, up to the
\* first request of translateSegmentsBatch.
BeginBatch(r, rs, segs) ==
    IF SignalAborted(r) \/ ~OnRunChapter(r)
    THEN Finally(r, rs, segs)
    ELSE /\ segments' = MarkLoading(segs, BatchIds(BatchAt(rs[r].segmentsToTranslate, rs[r].i)))
         /\ runs' = [rs EXCEPT ![r].pc = "provider", ![r].retries = 0, ![r].backoff = 2000]
         /\ UNCHANGED <<isTranslating, isStopping, abortControllerRef>>

\* A variant of AfterSave that ends the run after a batch left with an
\* error marker.
AfterSaveEndsOnFailure(r, rs, segs) ==
    LET counted == [rs EXCEPT ![r].completedBatches = @ + 1, ![r].translatedMap = EmptyMap]
        failed == \E k \in 1..Len(segs) :
                      /\ segs[k].id \in BatchIds(BatchAt(rs[r].segmentsToTranslate, rs[r].i))
                      /\ isTranslationError(segs[k].translatedText)
    IN
    IF rs[r].i + BATCH_SIZE < Len(rs[r].segmentsToTranslate) /\ ~SignalAborted(r) /\ ~failed
    THEN /\ runs' = [counted EXCEPT ![r].pc = "pause"]
         /\ segments' = segs
         /\ UNCHANGED <<isTranslating, isStopping, abortControllerRef>>
    ELSE Finally(r, counted, segs)

\* Lines 305-318: the batch is counted; with batches left the pause is
\* entered (its first test of the signal is made at once), else the loop
\* is over.
AfterSave(r, rs, segs) ==
    LET counted == [rs EXCEPT ![r].completedBatches = @ + 1, ![r].translatedMap = EmptyMap] IN
    IF rs[r].i + BATCH_SIZE < Len(rs[r].segmentsToTranslate) /\ ~SignalAborted(r)
    THEN /\ runs' = [counted EXCEPT ![r].pc = "pause"]
         /\ segments' = segs
         /\ UNCHANGED <<isTranslating, isStopping, abortControllerRef>>
    ELSE Finally(r, counted, segs)

\* Lines 284-302: the array translateSegmentsBatch returned is laid on the
\* batch and saveTranslations is called (it returns at once when no segment
\* has a translation).
Deliver(r, array) ==
    LET run == runs[r]
        applied == ApplyResults(run.currentSegments,
                                BatchAt(run.segmentsToTranslate, run.i), array)
        held == [runs EXCEPT ![r].currentSegments = applied]
    IN  IF SignalAborted(r) \/ ~OnRunChapter(r)
        THEN Finally(r, runs, segments)
        ELSE IF DOMAIN TranslatedMap(applied) = {}
        THEN AfterSave(r, held, applied)
        ELSE /\ segments' = applied
             /\ runs' = [held EXCEPT ![r].pc = "saving",
                                     ![r].translatedMap = TranslatedMap(applied)]
             /\ UNCHANGED <<isTranslating, isStopping, abortControllerRef>>

Markers(batch, marker) == [k \in 1..Len(batch) |-> marker]

\* handleTranslate(force), to the first await
HandleTranslate(force) ==
    /\ mounted
    /\ segments # <<>>
    /\ Len(runs) < MaxRuns
    /\ LET r == Len(runs) + 1
           chapter == Chapters[currentChapterIndex + 1]
           cands == SegmentsToTranslate(segments, force)
           started == [NoRun EXCEPT
                         !.pc = "provider", !.force = force,
                         !.translationChapterId = chapter.id,
                         !.chapterHref = chapter.href,
                         !.segmentsToTranslate = Ids(cands),
                         !.currentSegments = segments,
                         !.backoff = 2000]
       IN  /\ abortControllerRef' = r
           /\ isStopping' = FALSE
           /\ IF cands = <<>>
              THEN /\ runs' = Append(Abort(runs, abortControllerRef), Over(started))
                   /\ isTranslating' = FALSE
                   /\ segments' = segments
              ELSE /\ runs' = Append(Abort(runs, abortControllerRef), started)
                   /\ isTranslating' = TRUE
                   /\ segments' = MarkLoading(segments, BatchIds(BatchAt(Ids(cands), 0)))
    /\ UNCHANGED <<currentChapterIndex, currentChapterRef, isLoadingChapter, loads,
                   aiProvider, imageVars, requests, segVars, dbVars>>

HandleStopTranslation ==
    /\ mounted
    /\ abortControllerRef # 0
    /\ isStopping' = TRUE
    /\ runs' = Abort(runs, abortControllerRef)
    /\ UNCHANGED <<currentChapterIndex, currentChapterRef, segments, isLoadingChapter,
                   isTranslating, abortControllerRef, loads, aiProvider, imageVars, requests, segVars, dbVars>>

\* The request of translateSegmentsBatch comes back: lines 61-72 and
\* 165-199 of geminiService.ts, then lines 284-302 of ReaderView.tsx.
ProviderRespondsWithin(r, outcome, limit) ==
    /\ runs[r].pc = "provider"
    /\ SignalAborted(r) \/ requests < limit
    /\ requests' = IF SignalAborted(r) THEN requests ELSE requests + 1
    /\ LET batch == BatchAt(runs[r].segmentsToTranslate, runs[r].i)
           call == ProviderCall(aiProvider, BatchTexts(batch, runs[r].currentSegments),
                                outcome, r)
       IN  IF SignalAborted(r)
               THEN Finally(r, runs, segments)
           ELSE IF call.returns
               THEN Deliver(r, call.value)
           ELSE IF isRateLimit(aiProvider, call.thrown)
               THEN IF runs[r].retries = maxRetries
                    THEN Deliver(r, Markers(batch, RetryLimitExceeded))
                    ELSE /\ runs' = [runs EXCEPT ![r].pc = "backoff"]
                         /\ UNCHANGED <<segments, isTranslating, isStopping,
                                        abortControllerRef>>
           ELSE Deliver(r, Markers(batch, TranslationFailed))
    /\ UNCHANGED <<currentChapterIndex, currentChapterRef, isLoadingChapter, loads,
                   aiProvider, imageVars, segVars, dbVars>>

ProviderResponds(r, outcome) == ProviderRespondsWithin(r, outcome, MaxRequests)

\* delay(backoff, signal) is over: it resolved, or the signal rejected it.
BackoffOver(r) ==
    /\ runs[r].pc = "backoff"
    /\ IF SignalAborted(r)
       THEN Finally(r, runs, segments)
       ELSE /\ runs' = [runs EXCEPT ![r].pc = "provider",
                                    ![r].backoff = NextBackoff(@),
                                    ![r].retries = @ + 1]
            /\ UNCHANGED <<segments, isTranslating, isStopping, abortControllerRef>>
    /\ UNCHANGED <<currentChapterIndex, currentChapterRef, isLoadingChapter, loads,
                   aiProvider, imageVars, requests, segVars, dbVars>>

\* A variant of SaveCommits in which saveTranslations returns with its
\* transaction not made.
SaveReturnsUnwritten(r) ==
    /\ runs[r].pc = "saving"
    /\ translations' = translations
    /\ AfterSave(r, runs, segments)
    /\ UNCHANGED <<currentChapterIndex, currentChapterRef, isLoadingChapter, loads,
                   aiProvider, imageVars, requests, segVars, books, files, progress, dbCalls, usedBookIds,
                   lastWrite, dbIssued>>

\* The transaction of saveTranslations completes.
SaveCommits(r) ==
    /\ runs[r].pc = "saving"
    /\ translations' = PutTranslations(translations, ReaderBookId, SaveHref(r),
                                       runs[r].translatedMap)
    /\ AfterSave(r, runs, segments)
    /\ UNCHANGED <<currentChapterIndex, currentChapterRef, isLoadingChapter, loads,
                   aiProvider, imageVars, requests, segVars, books, files, progress, dbCalls, usedBookIds,
                   lastWrite, dbIssued>>

\* The pause between batches, lines 309-318 (five waits of 100 ms, the
\* signal tested before each), and the head of the next iteration.
PauseOver(r) ==
    /\ runs[r].pc = "pause"
    /\ IF SignalAborted(r)
       THEN Finally(r, runs, segments)
       ELSE BeginBatch(r, [runs EXCEPT ![r].i = @ + BATCH_SIZE], segments)
    /\ UNCHANGED <<currentChapterIndex, currentChapterRef, isLoadingChapter, loads,
                   aiProvider, imageVars, requests, segVars, dbVars>>

\* The segments parseChapterContent returns to load l: every call of
\* URL.createObjectURL gives a URL of its own, told apart here by the load.
ExtractedBy(l) ==
    LET extracted == ExtractedSegments[loads[l].chapterIndex] IN
    [k \in 1..Len(extracted) |->
        IF extracted[k].imageUrl # <<>>
        THEN [extracted[k] EXCEPT !.imageUrl = @ \o <<"#", ToString(l)>>]
        ELSE extracted[k]]

ImageURLs(segmentList) ==
    {segmentList[k].imageUrl :
        k \in {j \in 1..Len(segmentList) : segmentList[j].imageUrl # <<>>}}

\* cleanupResources, lines 168-174: the URLs left once those of the list
\* are revoked.
cleanupResources(urls, segmentList) == urls \ ImageURLs(segmentList)

\* setCurrentChapterIndex(index) and the effects of the render it causes:
\* the chapter-id ref is synced (lines 120-124), the load of the previous
\* chapter is deactivated (lines 224-226) and loadChapter runs to its first
\* await (lines 181-196).
ChangeChapter(index) ==
    /\ mounted
    /\ Len(loads) < MaxLoads
    /\ objectURLs' = cleanupResources(objectURLs, segments)
    /\ currentChapterIndex' = index
    /\ currentChapterRef' = Chapters[index + 1].id
    /\ loads' = Append([l \in 1..Len(loads) |-> [loads[l] EXCEPT !.active = FALSE]],
                       [chapterIndex |-> index, active |-> TRUE, pc |-> "parse",
                        extracted |-> <<>>])
    /\ isLoadingChapter' = TRUE
    /\ segments' = <<>>
    /\ IF abortControllerRef # 0
       THEN /\ runs' = Abort(runs, abortControllerRef)
            /\ abortControllerRef' = 0
            /\ isTranslating' = FALSE
            /\ isStopping' = FALSE
       ELSE UNCHANGED <<runs, abortControllerRef, isTranslating, isStopping>>
    /\ UNCHANGED <<aiProvider, mounted, requests, segVars, dbVars>>

nextChapter ==
    /\ currentChapterIndex < Len(Chapters) - 1
    /\ ChangeChapter(currentChapterIndex + 1)

prevChapter ==
    /\ currentChapterIndex > 0
    /\ ChangeChapter(currentChapterIndex - 1)

\* parseChapterContent resolves, lines 196-203
LoadParsed(l) ==
    /\ loads[l].pc = "parse"
    /\ LET extractedSegments == ExtractedBy(l) IN
       IF loads[l].active
       THEN /\ loads' = [loads EXCEPT ![l].pc = "read", ![l].extracted = extractedSegments]
            /\ objectURLs' = objectURLs \cup ImageURLs(extractedSegments)
       ELSE /\ loads' = [loads EXCEPT ![l].pc = "done"]
            /\ objectURLs' = cleanupResources(objectURLs \cup ImageURLs(extractedSegments),
                                              extractedSegments)
    /\ UNCHANGED <<currentChapterIndex, currentChapterRef, segments, isLoadingChapter,
                   isTranslating, isStopping, abortControllerRef, runs, aiProvider, mounted, requests,
                   segVars, dbVars>>

\* A LoadMerged that publishes whether or not its load is still active.
LoadMergedUnguarded(l) ==
    /\ loads[l].pc = "read"
    /\ loads' = [loads EXCEPT ![l].pc = "done", ![l].extracted = <<>>,
                               ![l].active = FALSE]
    /\ segments' = MergeSaved(loads[l].extracted,
                              getTranslations(translations, ReaderBookId,
                                              Chapters[loads[l].chapterIndex + 1].href))
    /\ isLoadingChapter' = FALSE
    /\ UNCHANGED <<currentChapterIndex, currentChapterRef, isTranslating, isStopping,
                   abortControllerRef, runs, aiProvider, imageVars, requests, segVars, dbVars>>

\* db.getTranslations resolves, lines 203-218 (a load no longer active
\* returns at line 205)
LoadMerged(l) ==
    /\ loads[l].pc = "read"
    /\ loads' = [loads EXCEPT ![l].pc = "done", ![l].extracted = <<>>,
                               ![l].active = FALSE]
    /\ IF loads[l].active
       THEN /\ segments' = MergeSaved(loads[l].extracted,
                              getTranslations(translations, ReaderBookId,
                                              Chapters[loads[l].chapterIndex + 1].href))
            /\ isLoadingChapter' = FALSE
       ELSE UNCHANGED <<segments, isLoadingChapter>>
    /\ UNCHANGED <<currentChapterIndex, currentChapterRef, isTranslating, isStopping,
                   abortControllerRef, runs, aiProvider, imageVars, requests, segVars, dbVars>>

\* The ReaderView is unmounted (onBack): the cleanup of the loadChapter
\* effect deactivates the load (lines 224-226), and the cleanup of the effect
\* at lines 229-236 runs; that effect has no dependencies, so the segments
\* it revokes the URLs of are those of the first render (line 53), [].
Unmount ==
    /\ mounted
    /\ mounted' = FALSE
    /\ loads' = [l \in 1..Len(loads) |-> [loads[l] EXCEPT !.active = FALSE]]
    /\ objectURLs' = cleanupResources(objectURLs, <<>>)
    /\ runs' = Abort(runs, abortControllerRef)
    /\ UNCHANGED <<currentChapterIndex, currentChapterRef, segments, isLoadingChapter,
                   isTranslating, isStopping, abortControllerRef, aiProvider, requests,
                   segVars, dbVars>>

-----------------------------------------------------------------------------
(* Navigation between chapters (ReaderView.tsx)                            *)

\* String.prototype.endsWith
endsWith(s, suffix) ==
    Len(suffix) <= Len(s) /\ SubSeq(s, Len(s) - Len(suffix) + 1, Len(s)) = suffix

\* The chapter test of handleTocNavigation (lines 453-457).  Equality alone
\* is not what the code tests.
matchesHrefExactly(href, fileHref) == href = fileHref

matchesHref(href, fileHref) ==
    \/ href = fileHref
    \/ endsWith(href, <<"/">> \o fileHref)
    \/ endsWith(fileHref, href)

\* Array.prototype.findIndex over book.chapters, 0-based, -1 for none.
findChapterIndex(hrefs, fileHref) ==
    LET hits == {k \in 1..Len(hrefs) : matchesHref(hrefs[k], fileHref)} IN
    IF hits = {} THEN -1 ELSE SetMin(hits) - 1

\* What the navigation actions leave alone.
NavFrame ==
    UNCHANGED <<currentChapterRef, segments, isLoadingChapter, isTranslating, isStopping,
                abortControllerRef, loads, runs, aiProvider, requests, imageVars,
                doc, parses, pathVars, epub, parsed, tocVars, chapterHrefs, scrollVars,
                dbVars>>

\* The longest run of navigation requests handled before React renders.
MaxSinceRender == 2

\* A request that sets the index to a value.
SetIndex(index) ==
    /\ sinceRender < MaxSinceRender
    /\ currentChapterIndex' = index
    /\ sinceRender' = sinceRender + 1
    /\ UNCHANGED <<renderedIndex, restorePending>>
    /\ NavFrame

\* handleTocNavigation(href), lines 451-464
handleTocNavigation(href) ==
    LET fileHref == Split(href, "#")[1]
        chapterIndex == findChapterIndex(chapterHrefs, fileHref)
    IN  /\ chapterIndex # -1
        /\ SetIndex(chapterIndex)

\* handleSearchResultClick(result), lines 396-400: performSearch gave the
\* result the index of a chapter of the book (line 362).
handleSearchResultClick(chapterIndex) ==
    /\ chapterIndex \in 0..(Len(chapterHrefs) - 1)
    /\ SetIndex(chapterIndex)

\* nextChapter and prevChapter as the callbacks of the last render (lines
\* 437-449): the test reads the index of that render, the update is applied
\* to the state as it is (prev => prev + 1).
nextChapterCallback ==
    /\ renderedIndex < Len(chapterHrefs) - 1
    /\ SetIndex(currentChapterIndex + 1)

prevChapterCallback ==
    /\ renderedIndex > 0
    /\ SetIndex(currentChapterIndex - 1)

\* init(), lines 102-111: db.getProgress resolved with a record (or none).
RestoreProgress(stored) ==
    /\ restorePending
    /\ restorePending' = FALSE
    /\ IF stored.found /\ stored.chapterIndex >= 0
          /\ stored.chapterIndex < Len(chapterHrefs)
       THEN currentChapterIndex' = stored.chapterIndex
       ELSE UNCHANGED currentChapterIndex
    /\ UNCHANGED <<renderedIndex, sinceRender>>
    /\ NavFrame

\* React renders: the callbacks are made anew over the current state.
Render ==
    /\ sinceRender > 0 \/ renderedIndex # currentChapterIndex
    /\ renderedIndex' = currentChapterIndex
    /\ sinceRender' = 0
    /\ UNCHANGED <<currentChapterIndex, restorePending>>
    /\ NavFrame

\* ---- the books and requests of the model ----

MaxBookChapters == 3

HrefPool == {<<"1">>, <<"1", "1">>, <<"T", "/", "1">>, <<"T", "/", "2">>}

BookHrefs == UNION {[1..n -> HrefPool] : n \in 1..MaxBookChapters}

\* The hrefs of TOC items: those of the chapters, with and without a
\* fragment, and one of no chapter.
TocHrefs == HrefPool \cup {h \o <<"#", "f">> : h \in HrefPool} \cup {<<"T", "/", "9">>}

StoredProgress ==
    {[found |-> FALSE, chapterIndex |-> 0]}
    \cup {[found |-> TRUE, chapterIndex |-> i] : i \in -1..(MaxBookChapters + 1)}

-----------------------------------------------------------------------------
(* Reading position: handleScroll (ReaderView.tsx 402-433)                 *)

\* The delay of the save timer, line 432, and the step of the model's clock.
SaveDelay == 1000
TickMs    == SaveDelay \div 2

\* The most timers handleScroll sets in one behaviour.
MaxTimers == 3

\* What the scroll actions leave alone.
ScrollFrame ==
    UNCHANGED <<readerVars, doc, parses, pathVars, epub, parsed, tocVars, navVars,
                books, files, progress, translations, usedBookIds, lastWrite>>

\* The ids of the rows in the document: the view renders a row with
\* id={segment.id} for every segment unless a chapter is loading (lines 885,
\* 901).
RowIds == IF isLoadingChapter THEN {} ELSE {segments[k].id : k \in 1..Len(segments)}

\* A handleScroll that clears the pending timer before its test of
\* isLoadingChapter (not the code's order).
handleScrollClearsFirst ==
    /\ mounted
    /\ timersSet < MaxTimers
    /\ sinceScroll' = 0
    /\ IF isLoadingChapter
       THEN /\ timers' = {t \in timers : t.id # saveTimeoutRef}
            /\ UNCHANGED <<saveTimeoutRef, timersSet>>
       ELSE /\ timersSet' = timersSet + 1
            /\ saveTimeoutRef' = timersSet + 1
            /\ timers' = {t \in timers : t.id # saveTimeoutRef}
                          \cup {[id |-> timersSet + 1, due |-> SaveDelay,
                                  currentChapterIndex |-> currentChapterIndex,
                                  segmentIds |-> Ids(segments)]}
    /\ UNCHANGED <<located, dbCalls, dbIssued>>
    /\ ScrollFrame

\* A scroll event of the container: handleScroll of the current render.
\* While a chapter is loading it returns at line 404, before clearTimeout.
handleScroll ==
    /\ mounted
    /\ timersSet < MaxTimers
    /\ sinceScroll' = 0
    /\ IF isLoadingChapter
       THEN UNCHANGED <<timers, saveTimeoutRef, timersSet>>
       ELSE /\ timersSet' = timersSet + 1
            /\ saveTimeoutRef' = timersSet + 1
            /\ timers' = {t \in timers : t.id # saveTimeoutRef}
                          \cup {[id |-> timersSet + 1, due |-> SaveDelay,
                                  currentChapterIndex |-> currentChapterIndex,
                                  segmentIds |-> Ids(segments)]}
    /\ UNCHANGED <<located, dbCalls, dbIssued>>
    /\ ScrollFrame

\* The segment the timer finds (lines 416-426): the first of the segments
\* of its closure whose row is in the document and reaches below the
\* offset; with the container scrolled to its top that is the first such
\* row, scrolled to its end the last one.
ScrollPositions == {"top", "end"}

foundSegmentId(segmentIds, scrollAt) ==
    LET rows == {k \in 1..Len(segmentIds) : segmentIds[k] \in RowIds} IN
    IF rows = {} THEN ""
    ELSE segmentIds[IF scrollAt = "top" THEN SetMin(rows) ELSE SetMax(rows)]

\* A due timer runs, lines 408-431.
SaveTimerRuns(t, scrollAt) ==
    /\ t \in timers /\ t.due = 0
    /\ timers' = timers \ {t}
    /\ LET found == foundSegmentId(t.segmentIds, scrollAt) IN
       IF mounted /\ found # ""
       THEN /\ Cardinality(dbCalls) < MaxInFlight
            /\ dbIssued < MaxCalls
            /\ dbIssued' = dbIssued + 1
            /\ dbCalls' = dbCalls \cup
                  {[DbCall("saveProgress", "tx", ReaderBookId) EXCEPT
                       !.chapterIndex = t.currentChapterIndex, !.segmentId = found]}
            /\ located' = located \cup
                  {[chapterIndex |-> t.currentChapterIndex, segmentId |-> found,
                    shown |-> currentChapterIndex]}
       ELSE UNCHANGED <<dbCalls, dbIssued, located>>
    /\ UNCHANGED <<saveTimeoutRef, timersSet, sinceScroll>>
    /\ ScrollFrame

\* TickMs milliseconds pass.
Tick ==
    /\ sinceScroll < SaveDelay \/ \E t \in timers : t.due > 0
    /\ sinceScroll' = MinOf(sinceScroll + TickMs, SaveDelay)
    /\ timers' = {[t EXCEPT !.due = SetMax({0, t.due - TickMs})] : t \in timers}
    /\ UNCHANGED <<saveTimeoutRef, timersSet, located, dbCalls, dbIssued>>
    /\ ScrollFrame

-----------------------------------------------------------------------------
(* Specifications                                                          *)

PathIdle == pathBase = <<>> /\ pathRef = <<>> /\ resolved = NotResolved

TocIdle == ncx = NoNavMap /\ tocPath = <<>> /\ toc = NotCalled

NavIdle ==
    /\ chapterHrefs = <<>> /\ renderedIndex = 0 /\ sinceRender = 0
    /\ restorePending = FALSE

ScrollIdle ==
    /\ timers = {} /\ saveTimeoutRef = 0 /\ timersSet = 0 /\ sinceScroll = SaveDelay
    /\ located = {}

EpubIdle == epub = NoArchive /\ parsed = NotParsed /\ TocIdle /\ NavIdle /\ ScrollIdle

SegIdle == doc = <<>> /\ parses = <<>> /\ PathIdle /\ EpubIdle

DbIdle ==
    /\ books = {} /\ files = {} /\ progress = EmptyMap /\ translations = EmptyMap
    /\ dbCalls = {} /\ usedBookIds = {} /\ lastWrite = EmptyMap
    /\ dbIssued = 0

ReaderIdle ==
    /\ currentChapterIndex = 0 /\ currentChapterRef = "" /\ segments = <<>>
    /\ isLoadingChapter = FALSE /\ isTranslating = FALSE /\ isStopping = FALSE
    /\ abortControllerRef = 0 /\ loads = <<>> /\ runs = <<>> /\ aiProvider = "gemini"
    /\ requests = 0
    /\ mounted = FALSE /\ objectURLs = {}

\* ---- the reader with its book open ----

\* The reader once init() is through: the chapter shown is the first one,
\* or the one the saved progress names (lines 103-111), and its load is
\* at its first await.  (The load of the first chapter that a restored
\* progress supersedes ends at its next step with no effect, lines 198-201.)
RestoredProgress ==
    {EmptyMap,
     [b \in {ReaderBookId} |->
        [bookId |-> ReaderBookId, chapterIndex |-> 1, segmentId |-> "seg-1"]]}

Init ==
    /\ SegIdle
    /\ books = {ReaderBookId} /\ files = {ReaderBookId}
    /\ progress \in RestoredProgress
    /\ translations = EmptyMap
    /\ dbCalls = {} /\ usedBookIds = {ReaderBookId} /\ lastWrite = EmptyMap
    /\ dbIssued = 0
    /\ currentChapterIndex = IF progress = EmptyMap THEN 0
                             ELSE progress[ReaderBookId].chapterIndex
    /\ currentChapterRef = Chapters[currentChapterIndex + 1].id
    /\ segments = <<>>
    /\ isLoadingChapter = TRUE
    /\ isTranslating = FALSE
    /\ isStopping = FALSE
    /\ abortControllerRef = 0
    /\ loads = <<[chapterIndex |-> currentChapterIndex, active |-> TRUE, pc |-> "parse",
                  extracted |-> <<>>]>>
    /\ runs = <<>>
    /\ aiProvider \in {"gemini", "openai"}
    /\ requests = 0
    /\ mounted = TRUE
    /\ objectURLs = {}

Next ==
    \/ \E force \in BOOLEAN : HandleTranslate(force)
    \/ HandleStopTranslation
    \/ \E r \in 1..Len(runs), outcome \in ProviderOutcomes : ProviderResponds(r, outcome)
    \/ \E r \in 1..Len(runs) : BackoffOver(r)
    \/ \E r \in 1..Len(runs) : SaveCommits(r)
    \/ \E r \in 1..Len(runs) : PauseOver(r)
    \/ nextChapter
    \/ prevChapter
    \/ \E l \in 1..Len(loads) : LoadParsed(l)
    \/ \E l \in 1..Len(loads) : LoadMerged(l)

Spec == Init /\ [][Next]_vars

\* ---- chapters loaded and left, and the reader closed ----

\* ---- the reader driven through the controls it renders ----

\* Lines 549-551
canTranslate ==
    \E k \in 1..Len(segments) :
        /\ segments[k].type = "text"
        /\ ~Truthy(segments[k].translatedText) \/ isTranslationError(segments[k].translatedText)

hasTranslatedSegments ==
    \E k \in 1..Len(segments) :
        segments[k].type = "text" /\ Truthy(segments[k].translatedText)

\* A row shows its Retry button (lines 928-941): a text segment not marked
\* loading whose translatedText is an error marker.
retryOffered ==
    /\ ~isLoadingChapter
    /\ \E k \in 1..Len(segments) :
          /\ segments[k].type = "text" /\ ~segments[k].isLoading
          /\ isTranslationError(segments[k].translatedText)

\* The Stop button is rendered while isTranslating and disabled while
\* isStopping (lines 812-816); the Translate button is rendered otherwise, if
\* canTranslate (835-837); the Retranslate button, which leads to
\* handleTranslate(true), otherwise, if hasTranslatedSegments (857-860, 1089).
NextOffered ==
    \/ ((~isTranslating /\ canTranslate) \/ retryOffered) /\ HandleTranslate(FALSE)
    \/ ~isTranslating /\ hasTranslatedSegments /\ HandleTranslate(TRUE)
    \/ isTranslating /\ ~isStopping /\ HandleStopTranslation
    \/ \E r \in 1..Len(runs), outcome \in ProviderOutcomes : ProviderResponds(r, outcome)
    \/ \E r \in 1..Len(runs) : BackoffOver(r)
    \/ \E r \in 1..Len(runs) : SaveCommits(r)
    \/ \E r \in 1..Len(runs) : PauseOver(r)
    \/ nextChapter
    \/ prevChapter
    \/ \E l \in 1..Len(loads) : LoadParsed(l)
    \/ \E l \in 1..Len(loads) : LoadMerged(l)

\* The store an earlier session on the first chapter leaves behind: its
\* first batch came back translated, the rest as [Translation Failed], and
\* saveTranslations stored every translatedText that was set (lines 301-303,
\* db.ts 129-134).
EarlierSession ==
    LET texts == SegmentsToTranslate(ExtractedSegments[0], TRUE)
        left  == [k \in 1..Len(texts) |->
                    [texts[k] EXCEPT !.translatedText =
                        IF k <= BATCH_SIZE THEN Translation(texts[k].originalText, 0)
                        ELSE TranslationFailed]]
    IN  [key \in {TranslationKey(ReaderBookId, Chapters[1].href)} |-> TranslatedMap(left)]

\* The reader opens the book with nothing stored or with what an earlier
\* session stored.
InitOffered ==
    /\ SegIdle
    /\ books = {ReaderBookId} /\ files = {ReaderBookId}
    /\ progress \in RestoredProgress
    /\ translations \in {EmptyMap, EarlierSession}
    /\ dbCalls = {} /\ usedBookIds = {ReaderBookId} /\ lastWrite = EmptyMap
    /\ dbIssued = 0
    /\ currentChapterIndex = IF progress = EmptyMap THEN 0
                             ELSE progress[ReaderBookId].chapterIndex
    /\ currentChapterRef = Chapters[currentChapterIndex + 1].id
    /\ segments = <<>>
    /\ isLoadingChapter = TRUE
    /\ isTranslating = FALSE
    /\ isStopping = FALSE
    /\ abortControllerRef = 0
    /\ loads = <<[chapterIndex |-> currentChapterIndex, active |-> TRUE, pc |-> "parse",
                  extracted |-> <<>>]>>
    /\ runs = <<>>
    /\ aiProvider \in {"gemini", "openai"}
    /\ requests = 0
    /\ mounted = TRUE
    /\ objectURLs = {}

SpecOffered == InitOffered /\ [][NextOffered]_vars

\* ---- chapters loaded over cached translations ----

\* What the store may hold of each chapter when the book is opened.
CachedTranslations ==
    {[key \in {TranslationKey(ReaderBookId, Chapters[c].href) : c \in cached} |->
         IF key = TranslationKey(ReaderBookId, Chapters[1].href)
         THEN [id \in {"seg-2"} |-> Translation(<<"a">>, 0)]
         ELSE [id \in {"seg-1"} |-> Translation(<<"b">>, 0)]] :
       cached \in SUBSET (1..Len(Chapters))}

InitLoad ==
    /\ SegIdle
    /\ books = {ReaderBookId} /\ files = {ReaderBookId}
    /\ progress \in RestoredProgress
    /\ translations \in CachedTranslations
    /\ dbCalls = {} /\ usedBookIds = {ReaderBookId} /\ lastWrite = EmptyMap
    /\ dbIssued = 0
    /\ currentChapterIndex = IF progress = EmptyMap THEN 0
                             ELSE progress[ReaderBookId].chapterIndex
    /\ currentChapterRef = Chapters[currentChapterIndex + 1].id
    /\ segments = <<>>
    /\ isLoadingChapter = TRUE
    /\ isTranslating = FALSE
    /\ isStopping = FALSE
    /\ abortControllerRef = 0
    /\ loads = <<[chapterIndex |-> currentChapterIndex, active |-> TRUE, pc |-> "parse",
                  extracted |-> <<>>]>>
    /\ runs = <<>>
    /\ aiProvider \in {"gemini", "openai"}
    /\ requests = 0
    /\ mounted = TRUE
    /\ objectURLs = {}

NextLoad ==
    \/ nextChapter
    \/ prevChapter
    \/ \E l \in 1..Len(loads) : LoadParsed(l)
    \/ \E l \in 1..Len(loads) : LoadMerged(l)

SpecLoad == InitLoad /\ [][NextLoad]_vars

\* ---- the reader scrolled ----

NextScroll ==
    \/ handleScroll
    \/ \E t \in timers, scrollAt \in ScrollPositions : SaveTimerRuns(t, scrollAt)
    \/ Tick
    \/ nextChapter
    \/ prevChapter
    \/ \E l \in 1..Len(loads) : LoadParsed(l)
    \/ \E l \in 1..Len(loads) : LoadMerged(l)
    \/ \E c \in dbCalls : SaveProgressCommit(c)
    \/ \E c \in dbCalls : Return(c)

SpecScroll == Init /\ [][NextScroll]_vars

NextImages ==
    \/ nextChapter
    \/ prevChapter
    \/ \E l \in 1..Len(loads) : LoadParsed(l)
    \/ \E l \in 1..Len(loads) : LoadMerged(l)
    \/ Unmount

SpecImages == Init /\ [][NextImages]_vars

\* ---- one chapter translated by a provider that answers or is busy ----

MaxRetryRequests == 5

RetryOutcomes == {"ok", "429", "503"}

InitRetry ==
    /\ Init
    /\ progress = EmptyMap

NextRetry ==
    \/ HandleTranslate(FALSE)
    \/ HandleStopTranslation
    \/ \E r \in 1..Len(runs), outcome \in RetryOutcomes :
          ProviderRespondsWithin(r, outcome, MaxRetryRequests)
    \/ \E r \in 1..Len(runs) : BackoffOver(r)
    \/ \E r \in 1..Len(runs) : SaveCommits(r)
    \/ \E r \in 1..Len(runs) : PauseOver(r)
    \/ \E l \in 1..Len(loads) : LoadParsed(l)
    \/ \E l \in 1..Len(loads) : LoadMerged(l)

SpecRetry == InitRetry /\ [][NextRetry]_vars

\* ---- a short chapter translated, its texts all different ----

\* The chapter on display: three paragraphs and an image, each paragraph
\* as a load leaves it (no translation, a translation stored by an earlier
\* run, or an error marker stored by an earlier run).
ShortChapter(saved) ==
    <<[Segment(getDeterministicId(0), "text", "h1", <<"a">>)
          EXCEPT !.translatedText = saved[1]],
      ChapterImage(1),
      [Segment(getDeterministicId(2), "text", "p", <<"b">>)
          EXCEPT !.translatedText = saved[2]],
      [Segment(getDeterministicId(3), "text", "p", <<"c">>)
          EXCEPT !.translatedText = saved[3]]>>

ShortChapters ==
    {ShortChapter(<<x, y, z>>) :
        x \in {NoText, Translation(<<"a">>, 0), TranslationFailed},
        y \in {NoText, Translation(<<"b">>, 0), RetryLimitExceeded},
        z \in {NoText, Translation(<<"c">>, 0), TranslationFailed}}

InitApply ==
    /\ SegIdle
    /\ books = {ReaderBookId} /\ files = {ReaderBookId}
    /\ progress = EmptyMap
    /\ segments \in ShortChapters
    /\ translations = IF DOMAIN TranslatedMap(segments) = {} THEN EmptyMap
                      ELSE PutTranslations(EmptyMap, ReaderBookId, Chapters[1].href,
                                           TranslatedMap(segments))
    /\ dbCalls = {} /\ usedBookIds = {ReaderBookId} /\ lastWrite = EmptyMap
    /\ dbIssued = 0
    /\ currentChapterIndex = 0
    /\ currentChapterRef = Chapters[1].id
    /\ isLoadingChapter = FALSE
    /\ isTranslating = FALSE
    /\ isStopping = FALSE
    /\ abortControllerRef = 0
    /\ loads = <<[chapterIndex |-> 0, active |-> FALSE, pc |-> "done", extracted |-> <<>>]>>
    /\ runs = <<>>
    /\ aiProvider \in {"gemini", "openai"}
    /\ requests = 0
    /\ mounted = TRUE
    /\ objectURLs = ImageURLs(segments)

NextApply ==
    \/ \E force \in BOOLEAN : HandleTranslate(force)
    \/ HandleStopTranslation
    \/ \E r \in 1..Len(runs), outcome \in ProviderOutcomes :
          ProviderRespondsWithin(r, outcome, MaxRetryRequests)
    \/ \E r \in 1..Len(runs) : BackoffOver(r)
    \/ \E r \in 1..Len(runs) : SaveCommits(r)

SpecApply == InitApply /\ [][NextApply]_vars

\* ---- one run, every request of which is answered in the end ----

\* The requests one run of the first chapter can make: maxRetries + 1 for
\* each of its batches.
RunRequests ==
    (maxRetries + 1) * totalBatches(SegmentsToTranslate(ExtractedSegments[0], TRUE))

LiveOutcomes == {"ok", "429", "500"}

NextLive ==
    \/ \E force \in BOOLEAN : runs = <<>> /\ HandleTranslate(force)
    \/ HandleStopTranslation
    \/ \E r \in 1..Len(runs), outcome \in LiveOutcomes :
          ProviderRespondsWithin(r, outcome, RunRequests)
    \/ \E r \in 1..Len(runs) : BackoffOver(r)
    \/ \E r \in 1..Len(runs) : SaveCommits(r)
    \/ \E r \in 1..Len(runs) : PauseOver(r)
    \/ \E l \in 1..Len(loads) : LoadParsed(l)
    \/ \E l \in 1..Len(loads) : LoadMerged(l)

\* The request of the run comes back (the provider answers or fails).
ProviderReturns ==
    /\ Len(runs) >= 1
    /\ \E outcome \in LiveOutcomes : ProviderRespondsWithin(1, outcome, RunRequests)

\* ENABLED <<ProviderReturns>>_vars, from the guard of ProviderRespondsWithin
\* (the step always moves the run).
ProviderDue ==
    /\ Len(runs) >= 1
    /\ runs[1].pc = "provider"
    /\ SignalAborted(1) \/ requests < RunRequests

\* Every request comes back in the end (weak fairness of ProviderReturns,
\* written out), the timers of the backoff and of the pause fire, and the
\* store transaction completes.
FairLive ==
    /\ []<>(~ProviderDue) \/ []<><<ProviderReturns>>_vars
    /\ WF_vars(Len(runs) >= 1 /\ BackoffOver(1))
    /\ WF_vars(Len(runs) >= 1 /\ SaveCommits(1))
    /\ WF_vars(Len(runs) >= 1 /\ PauseOver(1))

SpecLive == InitRetry /\ [][NextLive]_vars /\ FairLive

\* ---- segmentation calls on one chapter body ----

InitSeg ==
    /\ doc \in Bodies
    /\ parses = <<>>
    /\ PathIdle
    /\ EpubIdle
    /\ DbIdle
    /\ ReaderIdle

NextSeg == SegmentFull \/ SegmentTextOnly \/ SegmentLegacy

SpecSeg == InitSeg /\ [][NextSeg]_vars

\* ---- calls of resolvePath ----

InitPath ==
    /\ doc = <<>> /\ parses = <<>>
    /\ pathBase \in BaseFiles
    /\ pathRef \in RelativePaths
    /\ resolved = NotResolved
    /\ EpubIdle
    /\ DbIdle
    /\ ReaderIdle

NextPath == ResolvePath

SpecPath == InitPath /\ [][NextPath]_vars

\* ---- calls of parseEpub ----

InitEpub ==
    /\ doc = <<>> /\ parses = <<>>
    /\ PathIdle
    /\ epub \in [container : ContainerFiles, opf : PackageFiles]
    /\ parsed = NotParsed
    /\ TocIdle
    /\ NavIdle
    /\ ScrollIdle
    /\ DbIdle
    /\ ReaderIdle

NextEpub == ParseEpub

SpecEpub == InitEpub /\ [][NextEpub]_vars

\* ---- table of contents ----

InitToc ==
    /\ ncx \in NavMaps
    /\ tocPath \in TocPaths
    /\ toc = NotCalled
    /\ doc = <<>> /\ parses = <<>>
    /\ PathIdle
    /\ epub = NoArchive /\ parsed = NotParsed
    /\ NavIdle
    /\ ScrollIdle
    /\ DbIdle
    /\ ReaderIdle

NextToc == ParseNcx

SpecToc == InitToc /\ [][NextToc]_vars

\* ---- navigation ----

InitNav ==
    /\ chapterHrefs \in BookHrefs
    /\ renderedIndex = 0 /\ sinceRender = 0 /\ restorePending = TRUE
    /\ doc = <<>> /\ parses = <<>>
    /\ PathIdle
    /\ epub = NoArchive /\ parsed = NotParsed /\ TocIdle
    /\ ScrollIdle
    /\ DbIdle
    /\ ReaderIdle

NextNav ==
    \/ \E href \in TocHrefs : handleTocNavigation(href)
    \/ \E chapterIndex \in 0..(MaxBookChapters - 1) : handleSearchResultClick(chapterIndex)
    \/ nextChapterCallback
    \/ prevChapterCallback
    \/ \E stored \in StoredProgress : RestoreProgress(stored)
    \/ Render

SpecNav == InitNav /\ [][NextNav]_vars

\* ---- calls on the store ----

InitDb ==
    /\ SegIdle
    /\ DbIdle
    /\ ReaderIdle

NextDb ==
    \/ \E b \in DbBookIds : CallAddBook(b)
    \/ \E b \in DbBookIds : CallDeleteBook(b)
    \/ \E b \in usedBookIds, h \in DbHrefs, segs \in DbSegmentLists :
          CallSaveTranslations(b, h, segs)
    \/ \E b \in usedBookIds, index \in {0, 1} : CallSaveProgress(b, index, "seg-1")
    \/ \E c \in dbCalls : AddBookCommit(c)
    \/ \E c \in dbCalls : DeleteBookCommit(c)
    \/ \E c \in dbCalls, outcome \in {"complete", "error", "throws"} :
          DeleteBookCleanup(c, outcome)
    \/ \E c \in dbCalls : SaveTranslationsCommit(c)
    \/ \E c \in dbCalls : SaveProgressCommit(c)
    \/ \E c \in dbCalls : TransactionError(c)
    \/ \E c \in dbCalls : Return(c)

SpecDb == InitDb /\ [][NextDb]_vars

-----------------------------------------------------------------------------
(* Segmentation claims (specification SpecSeg)                             *)

TextSegments(segs) == SelectSeq(segs, LAMBDA s : s.type = "text")

\* What C8 compares of a segment.
Shape(segs) ==
    [k \in 1..Len(segs) |->
        <<segs[k].id, segs[k].type, segs[k].tagName, segs[k].originalText>>]

\* C8: segmenting the same markup twice in the same mode gives the same
\* ids and the same (type, tagName, originalText) for every segment: ids
\* never depend on a random source.  Not so for the second
\* parseChapterContent of epubParser.ts, whose ids are Math.random() draws.
C8_SameMarkupSameSegments ==
    \A a \in 1..Len(parses), b \in 1..Len(parses) :
        (parses[a].variant = parses[b].variant /\ parses[a].mode = parses[b].mode)
            => Shape(parses[a].segments) = Shape(parses[b].segments)

\* C9: the text segments of a text-only segmentation have the ids and the
\* originalText of the text segments full mode gives for the same markup,
\* images or not.  Not so when an image with a source precedes a text: the
\* image takes an id in full mode and none in text-only mode.
C9_TextOnlyRefinesFull ==
    \A a \in 1..Len(parses), b \in 1..Len(parses) :
        (/\ parses[a].variant = "zip" /\ parses[a].mode = "full"
         /\ parses[b].variant = "zip" /\ parses[b].mode = "text-only")
            => Shape(TextSegments(parses[a].segments)) = Shape(parses[b].segments)

\* C10: no text segment with an empty or whitespace-only text is emitted
\* (the text of a text segment is trimmed and non-empty), and a
\* whitespace-only block consumes no id: the ids of the segments emitted by
\* one call are seg-1, seg-2, ... with no gap.
C10_NoEmptyTextSegment ==
    \A c \in 1..Len(parses) :
        LET segs == parses[c].segments IN
        /\ \A k \in 1..Len(segs) :
              segs[k].type = "text" =>
                  /\ segs[k].originalText # <<>>
                  /\ ~IsWhitespace(segs[k].originalText[1])
                  /\ ~IsWhitespace(segs[k].originalText[Len(segs[k].originalText)])
        /\ parses[c].variant = "zip" =>
              \A k \in 1..Len(segs) : segs[k].id = "seg-" \o ToString(k)

\* A whitespace-only block, then a text: the call emitted the text alone,
\* as seg-1.
C10_Witness ==
    /\ doc = <<Element("p", <<TextNode(<<" ">>), Element("br", <<>>)>>),
               TextNode(<<"a">>)>>
    /\ Len(parses) > 0
    /\ parses[1].variant = "zip"
    /\ Shape(parses[1].segments) = <<<<"seg-1", "text", "p", <<"a">>>>>>

-----------------------------------------------------------------------------
(* Store claims (specification SpecDb)                                     *)

\* C5: after any sequence of saveTranslations calls getTranslations returns,
\* for each (bookId, chapterHref), the union of the maps written under it,
\* the later write winning on a segment id written twice; a key never
\* written gives the empty map.
C5_UnionLaterWriteWins ==
    \A b \in DbBookIds, h \in DbHrefs :
        getTranslations(translations, b, h) =
            IF TranslationKey(b, h) \in DOMAIN lastWrite
            THEN lastWrite[TranslationKey(b, h)]
            ELSE EmptyMap

\* One chapter was written twice, seg-1 and seg-2 first and seg-1 again
\* after; the other chapter of the book was never written.
C5_Witness ==
    /\ getTranslations(translations, <<"b", "1">>, <<"c", "1">>) =
          [id \in {"seg-1", "seg-2"} |->
              IF id = "seg-1" THEN Translation(<<"a">>, 1) ELSE Translation(<<"a">>, 2)]
    /\ getTranslations(translations, <<"b", "1">>, <<"c", "2">>) = EmptyMap

\* C7: deleteBook removes the book's blob, catalog record and progress
\* record in one step, and it succeeds, with nothing of that step undone,
\* whatever becomes of the translation cleanup that follows (it completes,
\* fails, or cannot be started).
C7_DeleteBookAtomicBestEffort ==
    [][\A c \in dbCalls :
          c.op = "deleteBook" /\ c \notin dbCalls' =>
              /\ c.pc = "tx" /\ [c EXCEPT !.pc = "cleanup"] \in dbCalls' =>
                    /\ books' = books \ {c.bookId}
                    /\ files' = files \ {c.bookId}
                    /\ progress' = DeleteRecord(progress, c.bookId)
              /\ c.pc = "cleanup" =>
                    /\ \E outcome \in {"complete", "error", "throws"} :
                          [c EXCEPT !.pc = "resolved", !.cleanup = outcome] \in dbCalls'
                    /\ UNCHANGED <<books, files, progress>>]_vars

\* A deleteBook whose cleanup could not be started has resolved: the book
\* is gone from the three stores, its translations are still there.
C7_Witness ==
    \E c \in dbCalls :
        /\ c.op = "deleteBook" /\ c.pc = "resolved" /\ c.cleanup = "throws"
        /\ c.bookId \notin books \cup files
        /\ c.bookId \notin DOMAIN progress
        /\ \E key \in DOMAIN translations : InBookRange(key, c.bookId)

-----------------------------------------------------------------------------
(* Reader claims (specification Spec)                                      *)

TranslatedTexts(segs) == [k \in 1..Len(segs) |-> segs[k].translatedText]

StoredFor(store, index) == getTranslations(store, ReaderBookId, Chapters[index + 1].href)

\* C1: once a run is cancelled or superseded (Stop, a new handleTranslate,
\* a chapter switch), the provider response it is still waiting for is
\* never applied to the displayed segments nor written to the store: the
\* run's next step ends it, texts and store as they were.
C1_LateResponseDropped ==
    [][\A r \in 1..Len(runs) :
          (/\ runs[r].aborted
           /\ runs[r].pc \in {"provider", "backoff"}
           /\ runs'[r] # runs[r])
              => /\ runs'[r].pc = "done"
                 /\ translations' = translations
                 /\ TranslatedTexts(segments') = TranslatedTexts(segments)]_vars

\* A run that merged its first batch was superseded by a second run while
\* its next request was out.
C1_Witness ==
    /\ Len(runs) = 2
    /\ runs[1].aborted /\ runs[1].pc = "provider" /\ runs[1].completedBatches = 1
    /\ abortControllerRef = 2 /\ runs[2].pc = "provider"

\* C2: when a run is cancelled after k batches were merged, the store holds
\* a translation for every member of batches 1..k.  Not so: a batch whose
\* response came one string short (C3) is merged and counted with its last
\* member left without a text.
C2_MergedBatchesStored ==
    \A r \in 1..Len(runs) :
        (runs[r].aborted /\ runs[r].pc # "done") =>
            \A j \in 1..Len(runs[r].segmentsToTranslate) :
                j <= runs[r].completedBatches * BATCH_SIZE =>
                    runs[r].segmentsToTranslate[j] \in
                        DOMAIN getTranslations(translations, ReaderBookId, runs[r].chapterHref)

\* C3: a response whose array is not as long as the request is a format
\* failure: every member of the batch gets an error marker, none is left
\* without a text.  Not so: the array is applied by index with no length
\* test, and a member past its end gets translatedText undefined.
C3_NoMemberLeftUndefined ==
    \A r \in 1..Len(runs) :
        runs[r].pc \in {"saving", "pause"} =>
            \A k \in 1..Len(runs[r].currentSegments) :
                runs[r].currentSegments[k].id \in
                        BatchIds(BatchAt(runs[r].segmentsToTranslate, runs[r].i))
                    => Truthy(runs[r].currentSegments[k].translatedText)

\* C4, as the code has it: after a chapter switch the run of the old
\* chapter ends at its next step; no result it receives is applied to the
\* segments of the new chapter or saved; the one write it may still make is
\* the saveTranslations it had issued before the switch, which commits under
\* the old chapter's key; and the map stored under a chapter only holds
\* translations made from that chapter's own segments.
C4_SwitchStopsRun ==
    /\ [](\A index \in 0..(Len(Chapters) - 1) :
            \A id \in DOMAIN StoredFor(translations, index) :
                \E k \in 1..Len(ExtractedSegments[index]) :
                    /\ ExtractedSegments[index][k].id = id
                    /\ ExtractedSegments[index][k].type = "text"
                    /\ StoredFor(translations, index)[id].kind = "translation" =>
                          StoredFor(translations, index)[id].src =
                              ExtractedSegments[index][k].originalText)
    /\ [][\A r \in 1..Len(runs) :
          (/\ runs[r].pc # "done"
           /\ ~OnRunChapter(r)
           /\ runs'[r] # runs[r])
              => /\ runs'[r].pc = "done"
                 /\ TranslatedTexts(segments') = TranslatedTexts(segments)
                 /\ translations' # translations =>
                       /\ runs[r].pc = "saving"
                       /\ translations' = PutTranslations(translations, ReaderBookId,
                                              runs[r].chapterHref, runs[r].translatedMap)
                       /\ runs[r].chapterHref # Chapters[currentChapterIndex + 1].href]_vars

\* The chapter was switched while a saveTranslations of the run was on its
\* way, and the new chapter is on display.
C4_Witness ==
    \E r \in 1..Len(runs) :
        /\ runs[r].pc = "saving" /\ runs[r].aborted
        /\ ~OnRunChapter(r)
        /\ segments # <<>> /\ ~isLoadingChapter

\* C4 as stated: nothing of the run is written to the store after the
\* switch.
C4_NothingWrittenAfterSwitch ==
    [][\A r \in 1..Len(runs) :
          (runs[r].pc # "done" /\ ~OnRunChapter(r) /\ runs'[r] # runs[r])
              => translations' = translations]_vars

FullyTranslated(segs) ==
    \A k \in 1..Len(segs) :
        segs[k].type = "text" =>
            Truthy(segs[k].translatedText) /\ ~isTranslationError(segs[k].translatedText)

\* C6: handleTranslate(false) on a chapter whose text segments all have a
\* translation that is no error marker makes no provider call and no store
\* write, and leaves the segments as they are.
C6_NothingToTranslate ==
    [][(/\ Len(runs') = Len(runs) + 1
        /\ ~runs'[Len(runs')].force
        /\ FullyTranslated(segments))
          => /\ runs'[Len(runs')].pc = "done"
             /\ segments' = segments
             /\ translations' = translations
             /\ requests' = requests
             /\ ~isTranslating']_vars

\* handleTranslate(false) returned at once on a fully translated chapter
\* (the path that leaves its controller in abortControllerRef).
C6_Witness ==
    /\ abortControllerRef # 0
    /\ runs[abortControllerRef].pc = "done"
    /\ segments # <<>>
    /\ FullyTranslated(segments)

-----------------------------------------------------------------------------
(* Path resolution claims (specification SpecPath)                         *)

\* The directory segments of a base path: its segments without the last.
DirSegments(base) ==
    LET all == Split(base, "/") IN [i \in 1..(Len(all) - 1) |-> all[i]]

\* One segment of the reference applied to the segments so far.
Step(stack, part) ==
    CASE part \in {<<>>, <<".">>}               -> stack
      [] part = <<".", ".">> /\ stack = <<>>    -> stack
      [] part = <<".", ".">> /\ stack # <<>>    -> [i \in 1..(Len(stack) - 1) |-> stack[i]]
      [] OTHER                                  -> stack \o <<part>>

\* The segments of a reference applied in order, the last one last.
RECURSIVE Applied(_, _)
Applied(stack, segs) ==
    IF segs = <<>> THEN stack
    ELSE Step(Applied(stack, SubSeq(segs, 1, Len(segs) - 1)), segs[Len(segs)])

Normalised(base, segs) == Join(Applied(DirSegments(base), segs), "/")

\* C11 (as the code has it): a call of resolvePath with an empty reference
\* returns the empty string; with a reference holding a malformed percent
\* escape it throws a URIError; otherwise it returns the directory segments
\* of the base followed by the segments of the percent-decoded reference
\* applied in order ('.' and empty ignored, '..' removing the last segment
\* or nothing when none is left, any other appended), joined with '/'.  The
\* two documented examples come out as documented.
C11_ResolveDecoded ==
    resolved.called =>
        /\ pathRef = <<>> => resolved = [called |-> TRUE, thrown |-> "", value |-> <<>>]
        /\ (pathRef # <<>> /\ MalformedURI(pathRef)) => resolved.thrown = "URIError"
        /\ (pathRef # <<>> /\ ~MalformedURI(pathRef)) =>
              /\ resolved.thrown = ""
              /\ resolved.value =
                    Normalised(pathBase, Split(decodeURIComponent(pathRef), "/"))
        /\ (pathBase = TextCh1 /\ pathRef = CoverRef) =>
              resolved.value = <<"I", "m", "a", "g", "e", "s", "/",
                                 "c", "o", "v", "e", "r", ".", "j", "p", "g">>
        /\ (pathBase = ContentOpf /\ pathRef = TextCh1) =>
              resolved.value = <<"O", "E", "B", "P", "S", "/">> \o TextCh1

\* A call whose reference climbs above the base directory and holds an
\* escaped separator has returned.
C11_Witness ==
    /\ resolved.called
    /\ pathBase = <<"a", "/", "f">>
    /\ pathRef = <<".", ".", "/", ".", ".", "/", "a", "%", "2", "F", "b">>
    /\ resolved.value = <<"a", "/", "b">>

\* C11 as stated: the segments of the reference as written (not decoded)
\* are the ones applied, and every call returns.
C11_ResolveAsWritten ==
    resolved.called =>
        /\ resolved.thrown = ""
        /\ resolved.value =
              IF pathRef = <<>> THEN <<>> ELSE Normalised(pathBase, Split(pathRef, "/"))

-----------------------------------------------------------------------------
(* Candidate selection (specification Spec)                                *)

ImageSegmentsOf(segs) == {k \in 1..Len(segs) : segs[k].type = "image"}

\* The ids a run started on segs has to take: the text segments without a
\* translation or with an error marker, every text segment under force.
CandidateIds(segs, force) ==
    {segs[k].id : k \in {j \in 1..Len(segs) :
        /\ segs[j].type = "text"
        /\ \/ force
           \/ segs[j].translatedText = NoText
           \/ segs[j].translatedText.kind
                 \in {"[Translation Failed]", "[Error: Retry Limit Exceeded]"}}}

SeqRange(seq) == {seq[k] : k \in 1..Len(seq)}

\* No image segment of segs has a translation or is marked loading.
ImagesUntouched(segs) ==
    \A k \in ImageSegmentsOf(segs) :
        segs[k].translatedText = NoText /\ ~segs[k].isLoading

\* What a step that starts a run gives the run.
CandidatesExact ==
    Len(runs') = Len(runs) + 1 =>
        LET new == runs'[Len(runs')] IN
        \E force \in BOOLEAN :
            LET want == CandidateIds(segments, force) IN
            IF want = {} THEN new.pc = "done"
            ELSE /\ new.pc = "provider"
                 /\ new.force = force
                 /\ SeqRange(new.segmentsToTranslate) = want
                 /\ Len(new.segmentsToTranslate) = Cardinality(want)

\* The segments whose text the request of run r carries are text segments.
OnlyTextSent ==
    \A r \in 1..Len(runs) :
        runs[r].pc = "provider" =>
            \A k \in 1..Len(runs[r].currentSegments) :
                runs[r].currentSegments[k].id
                        \in BatchIds(BatchAt(runs[r].segmentsToTranslate, runs[r].i))
                    => runs[r].currentSegments[k].type = "text"

\* C12: a run started by handleTranslate takes exactly the text segments
\* that have no translation or carry an error marker (every text segment
\* under force); in every reachable state no image segment, shown or held
\* by a run, has a translatedText or is marked loading, and the texts of a
\* provider request are those of text segments only.
C12_ImagesNeverSelected ==
    /\ [](/\ ImagesUntouched(segments)
          /\ \A r \in 1..Len(runs) : ImagesUntouched(runs[r].currentSegments)
          /\ OnlyTextSent)
    /\ [][CandidatesExact]_vars

\* A run without force is at its request on a chapter that has an image:
\* it took a segment carrying an error marker and left a translated one out.
C12_Witness ==
    \E r \in 1..Len(runs) :
        /\ runs[r].pc = "provider" /\ ~runs[r].force
        /\ ImageSegmentsOf(segments) # {}
        /\ \E k \in 1..Len(segments) :
              /\ segments[k].id \in SeqRange(runs[r].segmentsToTranslate)
              /\ isTranslationError(segments[k].translatedText)
        /\ \E k \in 1..Len(segments) :
              /\ segments[k].type = "text"
              /\ segments[k].id \notin SeqRange(runs[r].segmentsToTranslate)

-----------------------------------------------------------------------------
(* Retry claims (specification SpecRetry)                                  *)

\* The texts the segments of segs with the ids of batch have.
MemberTexts(segs, batch) ==
    {segs[k].translatedText : k \in {j \in 1..Len(segs) : segs[j].id \in BatchIds(batch)}}

\* Run r is at its request, not cancelled, and the answer is a 429.
RateLimitedAnswer(r) ==
    /\ ~runs[r].aborted
    /\ ProviderRespondsWithin(r, "429", MaxRetryRequests)

-----------------------------------------------------------------------------
(* Cancellation claims (specification Spec)                                *)

\* C14: a step that cancels a run still alive, and every step a cancelled
\* run takes afterwards, leaves the translatedText of every displayed
\* segment as it was (so it writes no error marker, and the members of the
\* batches not completed keep what they had); the one exception is the
\* chapter switch, which discards the displayed list as a whole.
C14_CancellationWritesNoMarker ==
    [][\A r \in 1..Len(runs) :
          (runs[r].pc # "done" /\ runs'[r].aborted /\ runs'[r] # runs[r])
              => \/ TranslatedTexts(segments') = TranslatedTexts(segments)
                 \/ /\ segments' = <<>>
                    /\ currentChapterIndex' # currentChapterIndex]_vars

\* A run was stopped after its first batch: it is over, the members of the
\* first batch have their translations, later segments have none, nothing
\* is marked loading and no segment carries an error marker.
C14_Witness ==
    \E r \in 1..Len(runs) :
        /\ runs[r].pc = "done" /\ runs[r].aborted
        /\ abortControllerRef = 0 /\ ~isTranslating
        /\ \E k \in 1..Len(segments) : segments[k].translatedText.kind = "translation"
        /\ \E k \in 1..Len(segments) :
              segments[k].type = "text" /\ segments[k].translatedText = NoText
        /\ \A k \in 1..Len(segments) :
              ~segments[k].isLoading /\ ~isTranslationError(segments[k].translatedText)

\* The runs that are alive with a signal not aborted.
ActiveRuns == {r \in 1..Len(runs) : runs[r].pc # "done" /\ ~runs[r].aborted}

\* C15: at most one run is alive with its signal not aborted, and that run
\* is the one whose controller abortControllerRef holds; a step that starts
\* a run or switches the chapter leaves every run that was alive before it
\* with its signal aborted.
C15_OneActiveRun ==
    /\ [](Cardinality(ActiveRuns) <= 1 /\ ActiveRuns \subseteq {abortControllerRef})
    /\ [][(Len(runs') = Len(runs) + 1 \/ currentChapterIndex' # currentChapterIndex)
            => \A r \in 1..Len(runs) : runs[r].pc # "done" => runs'[r].aborted]_vars

\* A second run was started while the first was at its request: both are
\* alive, the first with its signal aborted.
C15_Witness ==
    /\ Len(runs) = 2
    /\ runs[1].pc = "provider" /\ runs[1].aborted
    /\ runs[2].pc = "provider" /\ ~runs[2].aborted
    /\ abortControllerRef = 2

-----------------------------------------------------------------------------
(* Reading progress claims (specification SpecDb)                          *)

\* The call c, which was in its transaction, may have settled as pc in this
\* step.  The calls in flight form a set, so where a twin of c has settled
\* both ways already, the step of c reads as either settlement.
Settled(c, pc) ==
    /\ c \in dbCalls /\ c.pc = "tx"
    /\ dbCalls' = Settle(c, pc)

\* C16: the progress store holds at most one record per book, the one
\* with the book's id as its key; a saveProgress that completes leaves
\* getProgress of its book returning the chapterIndex and segmentId of that
\* call, whatever was there (last write wins), a deleteBook that completes
\* leaves getProgress of its book returning nothing, and no other step
\* changes what getProgress returns (a step that reads as a failed
\* transaction as well may be one, and then changes nothing); so
\* getProgress returns nothing for a book no saveProgress was completed for.
C16_ProgressLastWriteWins ==
    /\ [](\A b \in DOMAIN progress : progress[b].bookId = b)
    /\ [][\A b \in DbBookIds :
            LET saved   == {c \in dbCalls : /\ c.op = "saveProgress" /\ c.bookId = b
                                            /\ Settled(c, "resolved")}
                deleted == {c \in dbCalls : /\ c.op = "deleteBook" /\ c.bookId = b
                                            /\ Settled(c, "cleanup")}
                failed  == {c \in dbCalls : Settled(c, "rejected")}
                kept    == failed # {} /\ getProgress(progress', b) = getProgress(progress, b)
            IN  IF saved # {}
                THEN \/ \E c \in saved :
                          getProgress(progress', b) =
                              [bookId |-> b, chapterIndex |-> c.chapterIndex,
                               segmentId |-> c.segmentId]
                     \/ kept
                ELSE IF deleted # {}
                THEN getProgress(progress', b) = NoProgress \/ kept
                ELSE getProgress(progress', b) = getProgress(progress, b)]_vars
    /\ (\A b \in DbBookIds : getProgress(progress, b) = NoProgress)

\* Two saveProgress calls of one book have completed, the one for chapter 0
\* first: getProgress returns chapter 1.
C16_Witness ==
    \E c0, c1 \in dbCalls :
        /\ c0.op = "saveProgress" /\ c0.pc = "resolved" /\ c0.chapterIndex = 0
        /\ c1.op = "saveProgress" /\ c1.pc = "resolved" /\ c1.chapterIndex = 1
        /\ c0.bookId = c1.bookId
        /\ getProgress(progress, c1.bookId).chapterIndex = 1

-----------------------------------------------------------------------------
(* Archive claims (specification SpecEpub)                                 *)

\* The archive is malformed: the container descriptor is missing, empty or
\* not well formed, or names no package document, or the package document
\* is missing, empty or not well formed.
Malformed(zip) ==
    \/ zip.container.file # "text"
    \/ ~zip.container.wellFormed
    \/ zip.container.rootfile # "full-path"
    \/ zip.opf.file # "text"
    \/ ~zip.opf.wellFormed

\* C17: a call of parseEpub on a malformed archive ends with an error
\* thrown and no ParsedBook returned.
C17_MalformedArchiveFails ==
    (parsed.state # "none" /\ Malformed(epub)) => parsed.state = "thrown"

\* C18: in a ParsedBook that parseEpub returned, the chapter at list
\* position i (from 0) has order i.
C18_OrderGapless ==
    parsed.state = "returned" =>
        \A i \in 1..Len(parsed.chapters) : parsed.chapters[i].order = i - 1

-----------------------------------------------------------------------------
(* Order of store write and next request (specification Spec)              *)

\* The map stored under the chapter run r was started on.
StoredOfRun(store, run) == getTranslations(store, ReaderBookId, run.chapterHref)

\* Every member of the batches before offset run.i that has a text in the
\* run's segments has an entry in the stored map of the run's chapter.
EarlierBatchesStored(store, run) ==
    \A k \in 1..Len(run.currentSegments) :
        (/\ run.currentSegments[k].id \in BatchIds(SubSeq(run.segmentsToTranslate, 1, run.i))
         /\ Truthy(run.currentSegments[k].translatedText))
            => run.currentSegments[k].id \in DOMAIN StoredOfRun(store, run)

\* C20: the request for a later batch of a run starts only from the pause
\* that follows the completed saveTranslations of the batch before it: at
\* that step every earlier batch is counted as completed and every member
\* of an earlier batch that has a text has its entry in the stored map of
\* the run's chapter; and the step at which a run's saveTranslations
\* completes leaves the stored map holding every text the run handed it.
C20_SavedBeforeNextCall ==
    /\ [][\A r \in 1..Len(runs) :
            (runs'[r].pc = "provider" /\ runs'[r].i > runs[r].i)
                => /\ runs[r].pc = "pause"
                   /\ runs'[r].i = runs[r].i + BATCH_SIZE
                   /\ runs'[r].completedBatches * BATCH_SIZE = runs'[r].i
                   /\ EarlierBatchesStored(translations', runs'[r])]_vars
    /\ [][\A r \in 1..Len(runs) :
            (runs[r].pc = "saving" /\ runs'[r].pc # "saving")
                => \A id \in DOMAIN runs[r].translatedMap :
                      /\ id \in DOMAIN StoredOfRun(translations', runs[r])
                      /\ StoredOfRun(translations', runs[r])[id] = runs[r].translatedMap[id]]_vars

\* A run is at the request of its second batch and the translations of
\* its first batch are in the store.
C20_Witness ==
    \E r \in 1..Len(runs) :
        /\ runs[r].pc = "provider" /\ ~runs[r].aborted
        /\ runs[r].i = BATCH_SIZE
        /\ \A id \in BatchIds(BatchAt(runs[r].segmentsToTranslate, 0)) :
              /\ id \in DOMAIN StoredOfRun(translations, runs[r])
              /\ StoredOfRun(translations, runs[r])[id] =
                    [kind |-> "translation", src |-> <<"a">>, run |-> r]

-----------------------------------------------------------------------------
(* Image resource claims (specification SpecImages)                        *)

\* The object URLs that may still be in use: those of the segments on
\* display while the reader is mounted, and those of the loads that have
\* not ended yet.
InUse ==
    (IF mounted THEN ImageURLs(segments) ELSE {})
    \cup UNION {ImageURLs(loads[l].extracted) :
                   l \in {j \in 1..Len(loads) : loads[j].pc # "done"}}

\* C19: every object URL created and not revoked belongs to the segment
\* list on display in the mounted reader or to a load still on its way; the
\* URLs of a list left by a chapter change, of a superseded load that has
\* ended and of every list once the reader is unmounted have been revoked.
C19_ImageResourcesReleased == objectURLs \subseteq InUse

-----------------------------------------------------------------------------
(* Batching claims (specification Spec)                                    *)

\* The batches the loop of lines 271-275 takes from cands, in its order.
BatchesOf(cands) ==
    [b \in 1..totalBatches(cands) |-> BatchAt(cands, (b - 1) * BATCH_SIZE)]

RECURSIVE Concat(_)
Concat(seqs) == IF seqs = <<>> THEN <<>> ELSE Head(seqs) \o Concat(Tail(seqs))

PositionIn(segs, id) == CHOOSE k \in 1..Len(segs) : segs[k].id = id

\* The batches of cands are slices that follow one another and make up
\* cands, all but the last of BATCH_SIZE members, with no member twice.
Partitioned(cands) ==
    LET batches == BatchesOf(cands) IN
    /\ Concat(batches) = cands
    /\ \A b \in 1..Len(batches) :
          /\ Len(batches[b]) \in 1..BATCH_SIZE
          /\ b < Len(batches) => Len(batches[b]) = BATCH_SIZE
    /\ Cardinality(SeqRange(cands)) = Len(cands)

\* The candidates of run r stand in the order of the segment list.
InOriginalOrder(r) ==
    LET cands == runs[r].segmentsToTranslate IN
    \A k \in 1..(Len(cands) - 1) :
        PositionIn(runs[r].currentSegments, cands[k])
            < PositionIn(runs[r].currentSegments, cands[k + 1])

\* The moves of a run from one suspension point to the next.
RunMoves ==
    {<<"provider", "backoff">>, <<"backoff", "provider">>, <<"provider", "saving">>,
     <<"provider", "pause">>, <<"saving", "pause">>, <<"pause", "provider">>,
     <<"provider", "done">>, <<"backoff", "done">>, <<"saving", "done">>,
     <<"pause", "done">>}

\* A run goes through its batches one after another: the offset moves on
\* by BATCH_SIZE, and only from the pause that follows the batch before,
\* which the run reaches with that batch answered and counted.
OneBatchAtATime ==
    \A r \in 1..Len(runs) :
        runs[r].pc # "done" =>
            /\ runs'[r].pc # runs[r].pc => <<runs[r].pc, runs'[r].pc>> \in RunMoves
            /\ runs'[r].pc # "done" =>
                  /\ runs'[r].segmentsToTranslate = runs[r].segmentsToTranslate
                  /\ runs'[r].i \in {runs[r].i, runs[r].i + BATCH_SIZE}
                  /\ runs'[r].i # runs[r].i =>
                        /\ runs[r].pc = "pause" /\ runs'[r].pc = "provider"
                        /\ runs[r].completedBatches = (runs[r].i \div BATCH_SIZE) + 1
            /\ runs'[r].pc = "pause" =>
                  runs'[r].completedBatches = (runs[r].i \div BATCH_SIZE) + 1

\* C21: the batches of a run are contiguous slices of its candidate list
\* that make it up in the order of the segment list, every slice but the
\* last of exactly BATCH_SIZE candidates and no candidate in two of them;
\* the run is at one batch at a time, the one at its offset, and takes the
\* next batch only from the pause after the batch before was answered, so
\* that it never has two provider requests in flight.
C21_BatchesPartitionInSequence ==
    /\ [](\A r \in 1..Len(runs) :
            runs[r].pc # "done" =>
                /\ Partitioned(runs[r].segmentsToTranslate)
                /\ InOriginalOrder(r)
                /\ runs[r].i \in {(b - 1) * BATCH_SIZE :
                                    b \in 1..totalBatches(runs[r].segmentsToTranslate)})
    /\ [][OneBatchAtATime]_vars

\* A run of more than BATCH_SIZE candidates is at the request of its
\* second batch, the first one counted.
C21_Witness ==
    \E r \in 1..Len(runs) :
        /\ runs[r].pc = "provider" /\ runs[r].i = BATCH_SIZE
        /\ Len(runs[r].segmentsToTranslate) > BATCH_SIZE
        /\ runs[r].completedBatches = 1

-----------------------------------------------------------------------------
(* Batch result claims (specification SpecApply)                           *)

\* Run r, at its request, not cancelled and on its chapter, has the array
\* of its batch laid on the segments in this step.
ResultApplied(r) ==
    /\ runs[r].pc = "provider" /\ ~runs[r].aborted /\ OnRunChapter(r)
    /\ runs'[r].pc \in {"saving", "pause", "done"}
    /\ ~runs'[r].aborted

\* The arrays translateSegmentsBatch may return to the request of run r.
ArraysReturned(r) ==
    LET batch == BatchAt(runs[r].segmentsToTranslate, runs[r].i)
        texts == BatchTexts(batch, runs[r].currentSegments)
        calls == {ProviderCall(aiProvider, texts, outcome, r) : outcome \in ProviderOutcomes}
    IN  {call.value : call \in {c \in calls : c.returns}}
        \cup {Markers(batch, TranslationFailed), Markers(batch, RetryLimitExceeded)}

\* The segments of after are those of before but for translatedText and
\* isLoading, which differ for the members of batch only.
FrameKept(before, after, batch) ==
    /\ Len(after) = Len(before)
    /\ \A k \in 1..Len(before) :
          /\ after[k].id = before[k].id
          /\ after[k].type = before[k].type
          /\ after[k].tagName = before[k].tagName
          /\ after[k].originalText = before[k].originalText
          /\ after[k].imageUrl = before[k].imageUrl
          /\ before[k].id \notin BatchIds(batch) =>
                /\ after[k].translatedText = before[k].translatedText
                /\ after[k].isLoading = before[k].isLoading

\* C22: the step that applies the array returned for a batch gives the
\* i-th member of the batch the i-th string of the array and clears its
\* loading flag, and leaves the rest as it was: the list keeps its length
\* and order, every segment its id, type, tagName, originalText and
\* imageUrl, and every segment outside the batch its translatedText and
\* loading flag.
C22_PositionalAndFramed ==
    [][\A r \in 1..Len(runs) :
          ResultApplied(r) =>
              LET batch == BatchAt(runs[r].segmentsToTranslate, runs[r].i) IN
              /\ FrameKept(segments, segments', batch)
              /\ \E array \in ArraysReturned(r) :
                    \A j \in 1..Len(batch) :
                        LET member == segments'[PositionIn(segments', batch[j])] IN
                        /\ member.translatedText = ElementAt(array, j)
                        /\ ~member.isLoading]_vars

\* A batch of three different texts has its result on display: each
\* member holds the translation of its own text by the run, the flags are
\* cleared and the image has no translation.
C22_Witness ==
    /\ Len(runs) = 1
    /\ runs[1].pc = "saving"
    /\ \A k \in 1..Len(segments) :
          /\ ~segments[k].isLoading
          /\ segments[k].translatedText =
                IF segments[k].type = "text"
                THEN Translation(segments[k].originalText, 1) ELSE NoText

-----------------------------------------------------------------------------
(* Termination claims (specification SpecLive)                             *)

RunLive == Len(runs) >= 1 /\ runs[1].pc # "done"

RunCancelled == Len(runs) >= 1 /\ runs[1].aborted

\* Batch b of the run is at its request.
Submitted(b) ==
    /\ RunLive
    /\ runs[1].pc = "provider"
    /\ runs[1].i = (b - 1) * BATCH_SIZE

\* Batch b of the run is still to come.
Ahead(b) ==
    /\ RunLive
    /\ b <= totalBatches(runs[1].segmentsToTranslate)
    /\ runs[1].i < (b - 1) * BATCH_SIZE

-----------------------------------------------------------------------------
(* Failure marker claims (specification SpecApply)                         *)

\* The text a failed batch left on a segment: a text that is there and is
\* no translation.
FailureText(text) == Truthy(text) /\ text.kind # "translation"

\* C24: whatever a failed batch leaves on a member segment is a marker that
\* isTranslationError recognises, and the segment is a candidate of a run
\* started without force.  Not so: an empty Gemini response is answered
\* with the text "Translation Error", which isTranslationError does not
\* recognise, and the segment is taken for translated.
C24_FailuresRetryable ==
    \A k \in 1..Len(segments) :
        (segments[k].type = "text" /\ FailureText(segments[k].translatedText)) =>
            /\ isTranslationError(segments[k].translatedText)
            /\ segments[k].id \in SeqRange(Ids(SegmentsToTranslate(segments, FALSE)))

-----------------------------------------------------------------------------
(* Error classification claims (specification SpecApply)                   *)

\* Run r, not cancelled, has its request answered with outcome.
Answered(r, outcome) ==
    /\ ~runs[r].aborted
    /\ ProviderRespondsWithin(r, outcome, MaxRetryRequests)

\* The answers that are no result and no rate limit or overload.
OtherErrors ==
    {"500", "nonarray"} \cup (IF aiProvider = "openai" THEN {"empty"} ELSE {})

\* C25: an answer 429 or 503 of either provider to a batch below the retry
\* ceiling puts the same batch into its backoff delay and marks nothing;
\* any other error marks every member of the batch "[Translation Failed]"
\* at once, with no delay and no retry.  Not so for the OpenAI-compatible
\* provider: its 503 is taken for another error and marks the batch at once.
C25_OverloadRetried ==
    [][\A r \in 1..Len(runs) :
          LET batch == BatchAt(runs[r].segmentsToTranslate, runs[r].i) IN
          /\ \A outcome \in {"429", "503"} :
                (Answered(r, outcome) /\ runs[r].retries < maxRetries) =>
                    /\ runs'[r] = [runs[r] EXCEPT !.pc = "backoff"]
                    /\ segments' = segments
          /\ \A outcome \in OtherErrors :
                Answered(r, outcome) =>
                    /\ runs'[r].pc # "backoff"
                    /\ MemberTexts(segments', batch) = {TranslationFailed}]_vars

-----------------------------------------------------------------------------
(* Unwinding claims (specification SpecLive)                               *)

\* The map stored for the first chapter.
StoredMap(store) == StoredFor(store, 0)

\* C26: every step a cancelled run takes ends it, from its request, its
\* backoff delay, its pause and the store write it was waiting for alike:
\* the run makes no further request and calls saveTranslations no more, the
\* texts on display stay as they were, and the store keeps every entry it
\* had (only a write issued before the signal still commits); and a
\* cancelled run does take that step in the end.
C26_CancelledRunUnwinds ==
    /\ [][\A r \in 1..Len(runs) :
            (runs[r].aborted /\ runs[r].pc # "done" /\ runs'[r] # runs[r]) =>
                /\ runs'[r].pc = "done"
                /\ requests' = requests
                /\ TranslatedTexts(segments') = TranslatedTexts(segments)
                /\ runs[r].pc # "saving" => translations' = translations
                /\ \A id \in DOMAIN StoredMap(translations) :
                      /\ id \in DOMAIN StoredMap(translations')
                      /\ StoredMap(translations')[id] = StoredMap(translations)[id]]_vars
    /\ (RunCancelled /\ RunLive) ~> ~RunLive

\* The run was cancelled in the backoff delay of its second batch and is
\* over: the first batch is on display and in the store, the second has
\* nothing.
C26_Witness ==
    /\ Len(runs) = 1 /\ runs[1].pc = "done" /\ runs[1].aborted
    /\ requests = 2
    /\ Cardinality(DOMAIN StoredMap(translations)) = BATCH_SIZE
    /\ \E k \in 1..Len(segments) : segments[k].translatedText.kind = "translation"
    /\ \E k \in 1..Len(segments) :
          segments[k].type = "text" /\ segments[k].translatedText = NoText
    /\ \A k \in 1..Len(segments) : ~segments[k].isLoading

-----------------------------------------------------------------------------
(* Backoff claims (specification SpecRetry)                                *)

\* Retries over which the growth of the delay is followed.
MaxBackoffSteps == 9

\* 2000 ms times 1.5 for each of the n - 1 earlier retries (rounded down to
\* a whole millisecond), capped at 30000 ms.
Delay(n) == MinOf((2000 * 3 ^ (n - 1)) \div (2 ^ (n - 1)), 30000)

\* The value of backoff after n passes through line 188.
RECURSIVE BackoffAfter(_)
BackoffAfter(n) == IF n = 0 THEN 2000 ELSE NextBackoff(BackoffAfter(n - 1))

\* C27: a run waiting for its request or in its backoff delay with n - 1
\* retries behind it on the batch holds the delay 2000 * 1.5^(n-1) ms for
\* its n-th retry; within one batch the delay never goes down, a new batch
\* starts again at 2000 ms with no retry counted, and the delay, followed
\* over more retries than a batch can have, keeps growing by the factor 1.5
\* up to 30000 ms and stays there.
C27_BackoffGrowsToCap ==
    /\ [](\A r \in 1..Len(runs) :
            runs[r].pc \in {"provider", "backoff"} =>
                /\ runs[r].backoff = Delay(runs[r].retries + 1)
                /\ runs[r].backoff = (2000 * 3 ^ runs[r].retries) \div (2 ^ runs[r].retries)
                /\ runs[r].backoff <= 30000)
    /\ [][\A r \in 1..Len(runs) :
            (runs[r].pc # "done" /\ runs'[r].pc # "done") =>
                /\ runs'[r].i = runs[r].i => runs'[r].backoff >= runs[r].backoff
                /\ runs'[r].i # runs[r].i =>
                      runs'[r].backoff = 2000 /\ runs'[r].retries = 0]_vars
    /\ [](\A n \in 1..MaxBackoffSteps :
            /\ BackoffAfter(n) <= 30000
            /\ BackoffAfter(n) >= BackoffAfter(n - 1)
            /\ BackoffAfter(n) \in {Delay(n + 1) - 1, Delay(n + 1)}
            /\ (2000 * 3 ^ n) % (2 ^ n) = 0 => BackoffAfter(n) = Delay(n + 1)
            /\ 2000 * 3 ^ n >= 30000 * 2 ^ n => BackoffAfter(n) = 30000)

\* A run is in the delay before the third retry of its second batch: the
\* delay is 4500 ms.
C27_Witness ==
    \E r \in 1..Len(runs) :
        /\ runs[r].pc = "backoff" /\ ~runs[r].aborted
        /\ runs[r].i = BATCH_SIZE
        /\ runs[r].retries = 2
        /\ runs[r].backoff = 4500

-----------------------------------------------------------------------------
(* Segment ids within one pass (specification SpecSeg)                     *)

\* The most segments one body of Bodies gives.
MaxSegments == 3 * MaxTop

\* The number k an id seg-k carries, 0 for any other id.
IdNumber(id) ==
    IF \E n \in 1..MaxSegments : id = "seg-" \o ToString(n)
    THEN CHOOSE n \in 1..MaxSegments : id = "seg-" \o ToString(n)
    ELSE 0

\* C28: within one pass of the counter-based parseChapterContent the segment
\* at list position k, text and image segments counted together, has the id
\* seg-k: ids are unique, start at seg-1, leave no gap and increase along
\* the list.
C28_IdsCountPositions ==
    \A c \in 1..Len(parses) :
        parses[c].variant = "zip" =>
            LET segs == parses[c].segments IN
            /\ \A k \in 1..Len(segs) : IdNumber(segs[k].id) = k
            /\ \A j \in 1..Len(segs), k \in 1..Len(segs) :
                  /\ j # k => segs[j].id # segs[k].id
                  /\ j < k => IdNumber(segs[j].id) < IdNumber(segs[k].id)

\* A full-mode pass that emitted a text pending at an image, the image, and
\* a text after it.
C28_Witness ==
    \E c \in 1..Len(parses) :
        LET segs == parses[c].segments IN
        /\ parses[c].variant = "zip" /\ parses[c].mode = "full"
        /\ Len(segs) = 3
        /\ segs[1].type = "text" /\ segs[2].type = "image" /\ segs[3].type = "text"

-----------------------------------------------------------------------------
(* Image loading of full mode (specification SpecSeg)                      *)

\* The archive paths of the image elements of a forest that carry a source,
\* in document order (an image element is not descended into).
RECURSIVE ImagePathsOf(_)
ImagePathsOf(nodes) ==
    IF nodes = <<>> THEN <<>>
    ELSE LET node == Head(nodes)
             own == IF node.nodeType = "TEXT_NODE" THEN <<>>
                    ELSE IF node.tagName \in imageTags
                         THEN IF imageSrc(node) # <<>>
                              THEN <<resolvePath(SegHref, imageSrc(node))>>
                              ELSE <<>>
                         ELSE ImagePathsOf(node.childNodes)
         IN  own \o ImagePathsOf(Tail(nodes))

Visible(text) == SelectSeq(text, LAMBDA c : ~IsWhitespace(c))

\* What a forest shows, in document order: its visible characters and a
\* mark for every image with a source.
RECURSIVE ShownBy(_)
ShownBy(nodes) ==
    IF nodes = <<>> THEN <<>>
    ELSE LET node == Head(nodes)
             own == IF node.nodeType = "TEXT_NODE" THEN Visible(node.textContent)
                    ELSE IF node.tagName \in imageTags
                         THEN IF imageSrc(node) # <<>> THEN <<"img">> ELSE <<>>
                         ELSE ShownBy(node.childNodes)
         IN  own \o ShownBy(Tail(nodes))

\* What a segment list shows, in list order.
ShownIn(segs) ==
    Concat([k \in 1..Len(segs) |->
               IF segs[k].type = "image" THEN <<"img">>
               ELSE Visible(segs[k].originalText)])

ImageSegments(segs) == SelectSeq(segs, LAMBDA s : s.type = "image")

\* C29: in full mode, in whatever order the queued image loads settle, the
\* segment list is in document order, every image with a source keeps its
\* segment, the segment of an image whose resolved path is in the archive
\* holds the object URL of that very path, the segment of an image whose
\* path is missing holds no imageUrl, and nothing else of any segment
\* differs from what the walk emitted.
C29_ImagesAttachedInPlace ==
    \A c \in 1..Len(parses) :
        (parses[c].variant = "zip" /\ parses[c].mode = "full") =>
            LET segs == parses[c].segments
                paths == ImagePathsOf(doc)
                images == ImageSegments(segs)
                walked == flushText(walkChildren(doc, WalkStart, "full", SegHref)).segments
            IN  /\ ShownIn(segs) = ShownBy(doc)
                /\ Len(images) = Len(paths)
                /\ \A j \in 1..Len(images) :
                      images[j].imageUrl = IF paths[j] \in SegEntries
                                           THEN createObjectURL(paths[j])
                                           ELSE <<>>
                /\ [k \in 1..Len(segs) |-> [segs[k] EXCEPT !.imageUrl = <<>>]] = walked

\* A chapter whose first image is missing from the archive and whose second
\* image is there, loaded: the first segment is kept without a URL, the
\* second holds its URL.
C29_Witness ==
    \E c \in 1..Len(parses) :
        LET segs == parses[c].segments IN
        /\ parses[c].variant = "zip" /\ parses[c].mode = "full"
        /\ Len(segs) = 2
        /\ segs[1].type = "image" /\ segs[1].imageUrl = <<>>
        /\ segs[2].type = "image" /\ segs[2].imageUrl = createObjectURL(ImagePath)

-----------------------------------------------------------------------------
(* Block boundaries (specification SpecSeg)                                *)

\* The text runs C30 describes, as (tag, trimmed text) pairs in document
\* order: a run ends where a block element starts or ends and at an image
\* element, never at an inline element or a br, and carries the name of the
\* block element it lies directly in ("p" outside every block element).
CutRun(st, tag) ==
    IF Len(Trim(st.text)) > 0
    THEN [runs |-> Append(st.runs, <<tag, Trim(st.text)>>), text |-> <<>>]
    ELSE [st EXCEPT !.text = <<>>]

RECURSIVE RunsOf(_, _, _)
RunsOf(nodes, enclosing, st) ==
    IF nodes = <<>> THEN st
    ELSE LET node == Head(nodes)
             next == IF node.nodeType = "TEXT_NODE"
                         THEN [st EXCEPT !.text = @ \o node.textContent]
                     ELSE IF node.tagName \in imageTags
                         THEN CutRun(st, enclosing)
                     ELSE IF node.tagName \in blockTags
                         THEN CutRun(RunsOf(node.childNodes, node.tagName,
                                            CutRun(st, enclosing)),
                                     node.tagName)
                     ELSE IF node.tagName = "br"
                         THEN [st EXCEPT !.text = @ \o <<"\n">>]
                     ELSE RunsOf(node.childNodes, enclosing, st)
         IN  RunsOf(Tail(nodes), enclosing, next)

BlockRuns(body) == CutRun(RunsOf(body, "p", [runs |-> <<>>, text |-> <<>>]), "p").runs

TaggedTexts(segs) ==
    LET texts == TextSegments(segs) IN
    [k \in 1..Len(texts) |-> <<texts[k].tagName, texts[k].originalText>>]

\* C30: the text segments of a chapter are its text runs between block and
\* image boundaries, each tagged with the name of the block element the run
\* lies directly in; inline elements and br end no run.  Not so for text
\* that follows a nested block or an image inside a block element: every
\* flush resets the tag to "p", so that text is tagged "p".
C30_BlockTextTaggedWithElement ==
    \A c \in 1..Len(parses) :
        parses[c].variant = "zip" => TaggedTexts(parses[c].segments) = BlockRuns(doc)

-----------------------------------------------------------------------------
(* Table of contents (specification SpecToc)                               *)

\* The src a navPoint declares itself: that of its own content child.
OwnSrc(node) ==
    LET own == SelectSeq(node.childNodes,
                         LAMBDA c : c.nodeType = "ELEMENT_NODE" /\ c.tagName = "content")
    IN  IF own = <<>> THEN <<>> ELSE own[1].src

\* The (href, subitems) tree C31 describes: the navPoints with a src of
\* their own, in document order and nesting, each with its own src resolved
\* against the path of the TOC document.
RECURSIVE DeclaredItems(_, _)
DeclaredItems(children, path) ==
    IF children = <<>> THEN <<>>
    ELSE LET child == Head(children) IN
         (IF child.nodeType = "ELEMENT_NODE" /\ child.tagName = "navPoint"
              /\ OwnSrc(child) # <<>>
          THEN <<[href |-> resolvePath(path, OwnSrc(child)),
                  subitems |-> DeclaredItems(child.childNodes, path)]>>
          ELSE <<>>)
         \o DeclaredItems(Tail(children), path)

RECURSIVE HrefTree(_)
HrefTree(items) ==
    [k \in 1..Len(items) |->
        [href |-> items[k].href, subitems |-> HrefTree(items[k].subitems)]]

\* C31: the items parseNcx returns are the navPoints that declare a content
\* source of their own, in document order and nesting, each with its own
\* src resolved against tocPath.  Not so for a navPoint without a content
\* element of its own that holds a nested navPoint with one:
\* node.querySelector("content") finds the nested navPoint's element.
C31_OwnContentOnly ==
    (toc.called /\ ncx # NoNavMap) =>
        HrefTree(toc.items) = DeclaredItems(ncx, tocPath)

-----------------------------------------------------------------------------
(* Navigation claims (specification SpecNav)                               *)

\* The href of a TOC item without its fragment.
FileHrefOf(href) == Split(href, "#")[1]

\* C32: a navigation to a TOC item whose href, stripped of its fragment,
\* equals the href of a chapter makes a chapter with that very href the
\* current one.  Not so when an earlier chapter's href is a suffix of the
\* stripped href, or ends with "/" and the stripped href: findIndex takes
\* that earlier chapter.
C32_TocSelectsEqualHref ==
    [][\A href \in TocHrefs :
          (/\ handleTocNavigation(href)
           /\ \E k \in 1..Len(chapterHrefs) : chapterHrefs[k] = FileHrefOf(href))
              => /\ currentChapterIndex' \in 0..(Len(chapterHrefs) - 1)
                 /\ chapterHrefs[currentChapterIndex' + 1] = FileHrefOf(href)]_vars


\* C36: for a book with at least one chapter the current chapter index is
\* at least 0 and less than the number of chapters, whatever next, previous,
\* TOC, search-result and progress-restoring requests were handled.  Not so
\* for two next (or previous) requests handled by the callbacks of one
\* render: both pass the test on that render's index and both move the
\* state.
C36_IndexInRange ==
    Len(chapterHrefs) >= 1 =>
        (0 <= currentChapterIndex /\ currentChapterIndex < Len(chapterHrefs))

-----------------------------------------------------------------------------
(* Reading position claims (specification SpecScroll)                      *)

\* A step in which a timer issues a saveProgress call.
SaveIssued ==
    /\ dbIssued' = dbIssued + 1
    /\ \E t \in timers, scrollAt \in ScrollPositions : SaveTimerRuns(t, scrollAt)

\* C33: at most one save timer is pending at any time, every scroll event
\* cancels the timer pending before it, and a timer issues its saveProgress
\* call only when SaveDelay milliseconds have passed since the last scroll
\* event.  Not so for a scroll event that arrives while a chapter is
\* loading: handleScroll returns before it clears the pending timer.
C33_Debounced ==
    [][/\ Cardinality(timers') <= 1
       /\ handleScroll => \A t \in timers : t \notin timers'
       /\ SaveIssued => sinceScroll = SaveDelay]_vars


\* C37: every saveProgress call of a save timer names the chapter whose
\* rows were displayed when the timer found its segment.  Not so for a
\* timer set while one chapter was displayed that runs after the next
\* chapter has loaded: the call carries the index of the first chapter and
\* the id of a row of the second.
C37_RecordOfOneChapter ==
    \A w \in located : w.chapterIndex = w.shown

-----------------------------------------------------------------------------
(* Chapter loads (specification SpecLoad)                                  *)

\* The segments parseChapterContent gives for a chapter, merged with the
\* translations stored under that chapter's key.
SavedFor(index) ==
    getTranslations(translations, ReaderBookId, Chapters[index + 1].href)

-----------------------------------------------------------------------------
(* Flags of the reader (specification SpecOffered)                         *)

\* C35: whenever isTranslating is false no segment is marked loading, and
\* isStopping is set only while isTranslating is set.  Not so after a
\* Retranslate run is superseded by the Retry of a row: the retry ends
\* without having been aborted, so its finally block clears no loading
\* mark, and the superseded run no longer owns abortControllerRef, so its
\* finally block clears none either.
C35_FlagsConsistent ==
    /\ ~isTranslating => \A k \in 1..Len(segments) : ~segments[k].isLoading
    /\ isStopping => isTranslating

-----------------------------------------------------------------------------
(* Catalog and blobs (specification SpecDb)                                *)

\* C38: in every state of the store a book has a catalog entry exactly
\* when it has an archive blob: addBook puts both and deleteBook deletes
\* both in one transaction, and a failed transaction leaves neither.
C38_CatalogIffBlob == books = files

\* One book is stored, another was added and has been deleted again (its
\* translation cleanup is still to come).
C38_Witness ==
    /\ books # {}
    /\ \E c \in dbCalls :
          /\ c.op = "deleteBook" /\ c.pc = "cleanup"
          /\ c.bookId \in usedBookIds \ (books \cup files)

-----------------------------------------------------------------------------
(* Records of different books (specification SpecDb)                       *)

\* Chapter paths the keys are compared over: those of DbHrefs and paths
\* with a "_" or U+FFFF of their own.
KeyHrefs ==
    DbHrefs \cup {<<"c">>, <<"_", "c">>, <<"c", "_", "1">>, <<"1", "_", "c", "1">>,
                  <<"\\uffff", "c", "1">>}

OfBook(key, b) == \E h \in KeyHrefs : key = TranslationKey(b, h)

\* Everything the store holds of book b.
RecordsOf(b) ==
    <<b \in books, b \in files, getProgress(progress, b),
      [key \in {k \in DOMAIN translations : OfBook(k, b)} |-> translations[key]]>>

\* C39: a saveTranslations or deleteBook step of one book leaves the blob,
\* catalog entry, progress record and translation maps of every other
\* book as they were; a saveTranslations step changes nothing but the map
\* under the key of its (bookId, chapterHref); different (bookId,
\* chapterHref) pairs have different keys, and the key range deleteBook
\* deletes holds no key of another book.
C39_OtherBooksUntouched ==
    [][/\ \A p, q \in DbBookIds \X KeyHrefs :
             p # q => TranslationKey(p[1], p[2]) # TranslationKey(q[1], q[2])
       /\ \A b \in DbBookIds, p \in DbBookIds \X KeyHrefs :
             p[1] # b => ~InBookRange(TranslationKey(p[1], p[2]), b)
       /\ \A c \in dbCalls :
             c \notin dbCalls' /\ c.op \in {"saveTranslations", "deleteBook"} =>
                /\ \A b \in DbBookIds \ {c.bookId} : UNCHANGED RecordsOf(b)
                /\ c.op = "saveTranslations" =>
                      /\ UNCHANGED <<books, files, progress>>
                      /\ \A key \in DOMAIN translations \cup DOMAIN translations' :
                            key # TranslationKey(c.bookId, c.chapterHref) =>
                               /\ key \in DOMAIN translations
                               /\ key \in DOMAIN translations'
                               /\ translations'[key] = translations[key]]_vars

\* A book whose translations were saved has been deleted and its key range
\* cleaned up, while another book is stored with translations of its own.
C39_Witness ==
    \E c, s \in dbCalls :
        /\ c.op = "deleteBook" /\ c.pc = "resolved" /\ c.cleanup = "complete"
        /\ s.op = "saveTranslations" /\ s.pc = "resolved" /\ s.bookId = c.bookId
        /\ s.translatedMap # EmptyMap
        /\ \A key \in DOMAIN translations : ~OfBook(key, c.bookId)
        /\ \E b \in books \ {c.bookId} : \E key \in DOMAIN translations : OfBook(key, b)

=============================================================================
